---------------------------- MODULE Spec2Model ----------------------------
(***************************************************************************)
(* A model of disk-image-inspector: the MBR/EBR partition-table walker,    *)
(* the FAT boot-sector decoder, the FAT table decoder and the FAT probe    *)
(* that `run` performs on a disk image.                                    *)
(*                                                                         *)
(* The disk image is a sequence of 512-byte sectors.  A sector is a sparse *)
(* byte map (offset :> byte), every byte not named being 0.  Sectors are   *)
(* drawn from SectorKinds the first time a read touches them, so that the  *)
(* model explores every image that can be built from those kinds.          *)
(***************************************************************************)
EXTENDS Integers, Sequences, FiniteSets, TLC

VARIABLES
    image,      \* sector number -> sector kind, "?" while no read touched it
    imageLen,   \* length of the image file, in sectors
    content,    \* the bytes of a sector of each kind; the same all along a run
    checked,    \* "debug": the build panics on integer overflow, "release": it wraps;
                \* "?" until the first overflow tells
    pc,         \* position of `run`
    stack,      \* call stack of print_mbr_partition_table: <<[bs, start_pos, i]>>
    result,     \* "running", "ok", "err" or "panic": how `run` ended
    error,      \* the error kind `run` returned
    shown,      \* the MBR partitions printed: <<[at, idx, ext]>>
    hops,       \* the extended entries followed: <<[from, idx, lba, depth, at, ret, sig]>>
    probes,     \* the FAT probes made: <<[from, idx, lba, at, outcome]>>
    reads,      \* every seek+read_exact issued on the image: <<[off, len]>>
    fp,         \* the FatPartition being decoded or walked
    dstack,     \* call stack of print_fat_directory: <<[entries, k]>>
    chain,      \* get_directory_at_cluster: [cluster, entries, n]
    log,        \* what the FAT probes reported, in order
    gpt,        \* print_gpt_partition_table: [pos, header, i, reads, shown, probed]
    arg,        \* input of the function under test (function specifications)
    ret         \* its result

vars == <<image, imageLen, content, checked, pc, stack, result, error, shown, hops, probes, reads,
          fp, dstack, chain, log, gpt, arg, ret>>

\* The state of a FAT probe and of the GPT decoder.
fatVars == <<fp, dstack, chain, log, gpt>>

-----------------------------------------------------------------------------
(* Bounds *)

\* Number of sectors of the image file.
NumSectors == 4

-----------------------------------------------------------------------------
(* Program constants: bootsector.rs *)

BOOT_SECTOR_SIZE == 512
BOOT_SECTOR_SIGNATURE == <<85, 170>>
BOOT_SECTOR_SIGNATURE_OFFSET == 510
PARTITION_TABLE_OFFSET == 446
PARTITION_TABLE_ENTRIES == 4
PARTITION_ENTRY_SIZE == 16
MBR_GPT_PARTITION_TYPE == 238

\* The codes MBR_PARTITION_TYPES builds with MBRPartitionType::extended.
ExtendedCodes == {5, 15, 21, 31, 133, 145, 155, 197, 213, 234}

\* MBRPartitionType::regular(code, name) and ::extended(code, name); the
\* name is left out.
MBRPartitionType_regular(code) == [code |-> code, is_extended |-> FALSE]

\* A variant of ::extended that leaves the entry a regular one.
MBRPartitionType_extended_unset(code) == [code |-> code, is_extended |-> FALSE]

MBRPartitionType_extended(code) == [code |-> code, is_extended |-> TRUE]

\* The array MBR_PARTITION_TYPES, row by row as the source lists it.
MBR_PARTITION_TYPES_TABLE ==
    LET Reg(code) == MBRPartitionType_regular(code)
        Ext(code) == MBRPartitionType_extended(code)
    IN <<
      Reg(0), Reg(1), Reg(2), Reg(3), Reg(4), Ext(5), Reg(6), Reg(7),
      Reg(8), Reg(9), Reg(10), Reg(11), Reg(12), Reg(13), Reg(14), Ext(15),
      Reg(16), Reg(17), Reg(18), Reg(19), Reg(20), Ext(21), Reg(22), Reg(23),
      Reg(24), Reg(25), Reg(26), Reg(27), Reg(28), Reg(29), Reg(30), Ext(31),
      Reg(32), Reg(33), Reg(34), Reg(35), Reg(36), Reg(37), Reg(38), Reg(39),
      Reg(40), Reg(41), Reg(42), Reg(43), Reg(44), Reg(45), Reg(46), Reg(47),
      Reg(48), Reg(49), Reg(50), Reg(51), Reg(52), Reg(53), Reg(54), Reg(55),
      Reg(56), Reg(57), Reg(58), Reg(59), Reg(60), Reg(61), Reg(62), Reg(63),
      Reg(64), Reg(65), Reg(66), Reg(67), Reg(68), Reg(69), Reg(70), Reg(71),
      Reg(72), Reg(73), Reg(74), Reg(75), Reg(76), Reg(77), Reg(78), Reg(79),
      Reg(80), Reg(81), Reg(82), Reg(83), Reg(84), Reg(85), Reg(86), Reg(87),
      Reg(88), Reg(89), Reg(90), Reg(91), Reg(92), Reg(93), Reg(94), Reg(95),
      Reg(96), Reg(97), Reg(98), Reg(99), Reg(100), Reg(101), Reg(102), Reg(103),
      Reg(104), Reg(105), Reg(106), Reg(107), Reg(108), Reg(109), Reg(110), Reg(111),
      Reg(112), Reg(113), Reg(114), Reg(115), Reg(116), Reg(117), Reg(118), Reg(119),
      Reg(120), Reg(121), Reg(122), Reg(123), Reg(124), Reg(125), Reg(126), Reg(127),
      Reg(128), Reg(129), Reg(130), Reg(131), Reg(132), Ext(133), Reg(134), Reg(135),
      Reg(136), Reg(137), Reg(138), Reg(139), Reg(140), Reg(141), Reg(142), Reg(143),
      Reg(144), Ext(145), Reg(146), Reg(147), Reg(148), Reg(149), Reg(150), Reg(151),
      Reg(152), Reg(153), Reg(154), Ext(155), Reg(156), Reg(157), Reg(158), Reg(159),
      Reg(160), Reg(161), Reg(162), Reg(163), Reg(164), Reg(165), Reg(166), Reg(167),
      Reg(168), Reg(169), Reg(170), Reg(171), Reg(172), Reg(173), Reg(174), Reg(175),
      Reg(176), Reg(177), Reg(178), Reg(179), Reg(180), Reg(181), Reg(182), Reg(183),
      Reg(184), Reg(185), Reg(186), Reg(187), Reg(188), Reg(189), Reg(190), Reg(191),
      Reg(192), Reg(193), Reg(194), Reg(195), Reg(196), Ext(197), Reg(198), Reg(199),
      Reg(200), Reg(201), Reg(202), Reg(203), Reg(204), Reg(205), Reg(206), Reg(207),
      Reg(208), Reg(209), Reg(210), Reg(211), Reg(212), Ext(213), Reg(214), Reg(215),
      Reg(216), Reg(217), Reg(218), Reg(219), Reg(220), Reg(221), Reg(222), Reg(223),
      Reg(224), Reg(225), Reg(226), Reg(227), Reg(228), Reg(229), Reg(230), Reg(231),
      Reg(232), Reg(233), Ext(234), Reg(235), Reg(236), Reg(237), Reg(238), Reg(239),
      Reg(240), Reg(241), Reg(242), Reg(243), Reg(244), Reg(245), Reg(246), Reg(247),
      Reg(248), Reg(249), Reg(250), Reg(251), Reg(252), Reg(253), Reg(254), Reg(255)
    >>

\* MBR_PARTITION_TYPES[i as usize]; the array starts at index 0.
MBR_PARTITION_TYPES(i) == MBR_PARTITION_TYPES_TABLE[i + 1]

-----------------------------------------------------------------------------
(* Bytes *)

\* data[i] of a byte buffer held as a sparse map.
Get(data, i) == IF i \in DOMAIN data THEN data[i] ELSE 0

\* u16::from_le_bytes(data[o..o+2])
LE16(data, o) == Get(data, o) + 256 * Get(data, o + 1)

\* u32::from_le_bytes(data[o..o+4])
LE32(data, o) == Get(data, o) + 256 * Get(data, o + 1)
                 + 65536 * Get(data, o + 2) + 16777216 * Get(data, o + 3)

\* The bytes of v, little-endian on n bytes, at offset o (the image builder).
RECURSIVE PutLE(_, _, _)
PutLE(o, n, v) == IF n = 0 THEN <<>> ELSE (o :> (v % 256)) @@ PutLE(o + 1, n - 1, v \div 256)

\* The 16 bytes of partition-table entry k: type, LBA start, sector count.
PutEntry(k, type, lba, count) ==
    LET b == PARTITION_TABLE_OFFSET + k * PARTITION_ENTRY_SIZE
    IN  (b + 4 :> type) @@ PutLE(b + 8, 4, lba) @@ PutLE(b + 12, 4, count)

PutSignature == (510 :> 85) @@ (511 :> 170)

\* The BIOS parameter block of a FAT boot sector.
PutBpb(bytes_per_sector, sectors_per_cluster, reserved_sectors, number_of_fats, root_directory_entries, sectors16, sectors_per_fat16, sectors32) ==
    PutLE(11, 2, bytes_per_sector) @@ (13 :> sectors_per_cluster)
        @@ PutLE(14, 2, reserved_sectors) @@ (16 :> number_of_fats)
        @@ PutLE(17, 2, root_directory_entries) @@ PutLE(19, 2, sectors16)
        @@ PutLE(22, 2, sectors_per_fat16) @@ PutLE(32, 4, sectors32)

\* Bytes seq at offset o.
PutBytes(o, seq) == [i \in o..(o + Len(seq) - 1) |-> seq[i - o + 1]]

\* A 32-byte directory entry at offset o: 8.3 name, attributes, first cluster.
PutDirEntry(o, name, ext, attributes, cluster) ==
    PutBytes(o, name) @@ PutBytes(o + 8, ext) @@ (o + 11 :> attributes) @@ PutLE(o + 26, 2, cluster)

\* The sector after the boot sector of the "fat16" volume (128-byte sectors):
\* the FAT (cluster 2 -> 3 -> end), the root directory (SUB at cluster 2,
\* FAR at cluster 100, a file) and the clusters 2 and 3.
FatBody ==
    PutLE(4, 2, 3) @@ PutLE(6, 2, 65535)
        @@ PutDirEntry(128, <<83, 85, 66, 32, 32, 32, 32, 32>>, <<32, 32, 32>>, 16, 2)
        @@ PutDirEntry(160, <<70, 65, 82, 32, 32, 32, 32, 32>>, <<32, 32, 32>>, 16, 100)
        @@ PutDirEntry(192, <<65, 32, 32, 32, 32, 32, 32, 32>>, <<84, 88, 84>>, 32, 3)
        @@ PutDirEntry(256, <<46, 32, 32, 32, 32, 32, 32, 32>>, <<32, 32, 32>>, 16, 2)
        @@ PutDirEntry(288, <<46, 46, 32, 32, 32, 32, 32, 32>>, <<32, 32, 32>>, 16, 0)
        @@ PutDirEntry(384, <<66, 32, 32, 32, 32, 32, 32, 32>>, <<32, 32, 32>>, 32, 0)


\* "EFI PART"
GPT_HEADER_SIGNATURE == <<69, 70, 73, 32, 80, 65, 82, 84>>
GPT_REVISION_1_0 == 65536
GPT_HEADER_1_0_SIZE == 92

\* The 92 bytes of a GPT header: signature, revision, header size, the LBA of
\* the entry array, the number of entries and the size of one.
PutGptHeader(signature, revision, header_size, partition_table_lba, partition_count, partition_entry_size) ==
    PutBytes(0, signature) @@ PutLE(8, 4, revision) @@ PutLE(12, 4, header_size)
        @@ PutLE(24, 8, 1) @@ PutLE(72, 8, partition_table_lba)
        @@ PutLE(80, 4, partition_count) @@ PutLE(84, 4, partition_entry_size)

\* A GPT partition entry at offset o: the first byte of the type GUID (0 for
\* an unused entry) and the starting LBA.
PutGptEntry(o, type_byte, starting_lba) == (o :> type_byte) @@ PutLE(o + 32, 8, starting_lba)

\* A sector of GPT headers that fail one or more checks, or declare another
\* entry array; used where print_gpt_partition_table is run on its own.
GptSectorBytes(kind) ==
    CASE kind = "hdr_sig"      -> PutGptHeader(<<70, 70, 73, 32, 80, 65, 82, 84>>, 65536, 92, 2, 2, 128)
      [] kind = "hdr_sig8"     -> PutGptHeader(<<69, 70, 73, 32, 80, 65, 82, 0>>, 65536, 92, 2, 2, 128)
      [] kind = "hdr_rev"      -> PutGptHeader(GPT_HEADER_SIGNATURE, 65535, 92, 2, 2, 128)
      [] kind = "hdr_size"     -> PutGptHeader(GPT_HEADER_SIGNATURE, 65536, 93, 2, 2, 128)
      [] kind = "hdr_sig_rev"  -> PutGptHeader(<<70, 70, 73, 32, 80, 65, 82, 84>>, 0, 92, 2, 2, 128)
      [] kind = "hdr_sig_size" -> PutGptHeader(<<70, 70, 73, 32, 80, 65, 82, 84>>, 65536, 512, 2, 2, 128)
      [] kind = "hdr_rev_size" -> PutGptHeader(GPT_HEADER_SIGNATURE, 256, 91, 2, 2, 128)
      [] kind = "hdr_rev2"     -> PutGptHeader(GPT_HEADER_SIGNATURE, 131072, 92, 2, 4, 128)
      [] kind = "hdr_256"      -> PutGptHeader(GPT_HEADER_SIGNATURE, 65536, 92, 2, 2, 256)
      [] kind = "hdr_64"       -> PutGptHeader(GPT_HEADER_SIGNATURE, 65536, 92, 2, 3, 64)
      [] kind = "hdr_far"      -> PutGptHeader(GPT_HEADER_SIGNATURE, 65536, 92, 3, 5, 128)
      [] kind = "hdr_0"        -> PutGptHeader(GPT_HEADER_SIGNATURE, 65536, 92, 2, 0, 128)
      [] kind = "gpt_ents_far" -> PutGptEntry(128, 1, 9)
      [] kind = "fat_r1"       -> PutBpb(128, 1, 1, 1, 4, 5000, 1, 0) @@ PutSignature
      [] OTHER                 -> <<>>

GptKinds == {"hdr_sig", "hdr_sig8", "hdr_rev", "hdr_size", "hdr_sig_rev", "hdr_sig_size", "hdr_rev_size",
             "hdr_rev2", "hdr_256", "hdr_64", "hdr_far", "hdr_0", "gpt_ents_far", "fat_r1"}

\* A directory entry with the directory attribute: a two-letter name and
\* the first cluster.
PutSubdir(o, c1, c2, cluster) ==
    PutDirEntry(o, <<c1, c2, 32, 32, 32, 32, 32, 32>>, <<32, 32, 32>>, 16, cluster)

\* A file entry with a one-letter name.
PutFile(o, c1) == PutDirEntry(o, <<c1, 32, 32, 32, 32, 32, 32, 32>>, <<84, 88, 84>>, 32, 0)

\* Boot sectors of FAT volumes and the sector that follows each, used where
\* the program is run on an image that holds one primary FAT volume.
\*   fat12    64-byte sectors, 128-byte clusters, a 192-byte 12-bit table
\*   fat_c48  16-byte sectors, 48-byte clusters
\*   fat_t4   a table of 4 entries, 128-byte clusters
\*   fat32r   classified FAT32, an empty table, 4 root entries
\*   fat16x2  two table copies
\*   bigroot  a root directory that ends beyond the end of the file
\* The body "body_self" holds the directory AA at cluster 2 (a chain of one
\* cluster) whose entry BB names cluster 2 again.
\* Behind "fat16"-like volumes the table is at 0, the root directory at 128
\* and cluster 2 at 256; behind "fat12" the root directory is at 192.
VolSectorBytes(kind) ==
    CASE kind = "fat12"     -> PutBpb(64, 2, 8, 1, 2, 100, 3, 0) @@ PutSignature
      [] kind = "fat_c48"   -> PutBpb(16, 3, 32, 1, 4, 20000, 8, 0) @@ PutSignature
      [] kind = "fat_t4"    -> PutBpb(8, 16, 64, 1, 4, 65535, 1, 0) @@ PutSignature
      [] kind = "fat32r"    -> PutBpb(128, 1, 4, 1, 4, 0, 0, 70000) @@ PutSignature
      [] kind = "fat16x2"   -> PutBpb(128, 1, 4, 2, 4, 5000, 1, 0) @@ PutSignature
      [] kind = "bigroot"   -> PutBpb(128, 1, 4, 1, 60, 5000, 1, 0) @@ PutSignature
      [] kind = "body_loop" -> PutLE(4, 2, 3) @@ PutLE(6, 2, 2) @@ PutSubdir(128, 76, 80, 2)
                                   @@ PutFile(256, 67)
      [] kind = "body_zero" -> PutLE(0, 2, 65528) @@ PutLE(2, 2, 65535)
                                   @@ PutSubdir(128, 68, 48, 0) @@ PutSubdir(160, 68, 49, 1)
                                   @@ PutSubdir(224, 90, 68, 3)
      [] kind = "body_thr"  -> PutLE(4, 2, 65527) @@ PutLE(6, 2, 65528) @@ PutLE(8, 2, 1)
                                   @@ PutLE(10, 2, 4) @@ PutLE(12, 2, 7) @@ PutLE(14, 2, 0)
                                   @@ PutSubdir(128, 84, 51, 3) @@ PutSubdir(160, 84, 53, 5)
                                   @@ PutSubdir(192, 84, 54, 6) @@ PutSubdir(224, 84, 50, 2)
                                   @@ PutFile(256, 67) @@ PutFile(416, 69)
      [] kind = "body12"    -> PutBytes(3, <<3, 128, 255, 247, 79, 0, 7, 240, 255>>)
                                   @@ PutSubdir(192, 65, 50, 2) @@ PutSubdir(224, 65, 53, 5)
                                   @@ PutFile(256, 67) @@ PutFile(416, 69)
      [] kind = "body_t4"   -> PutLE(4, 2, 3) @@ PutLE(6, 2, 65535)
                                   @@ PutSubdir(8, 68, 53, 5) @@ PutSubdir(40, 68, 50, 2)
                                   @@ PutFile(136, 67)
      [] kind = "body_x2"   -> PutLE(4, 2, 3) @@ PutLE(6, 2, 65535) @@ PutLE(132, 2, 2)
                                   @@ PutSubdir(256, 88, 50, 2) @@ PutFile(384, 67)
      [] kind = "body32"    -> PutSubdir(0, 82, 50, 2) @@ PutFile(128, 67)
      [] kind = "body_self" -> PutLE(4, 2, 65535)
                                   @@ PutSubdir(128, 65, 65, 2) @@ PutSubdir(256, 66, 66, 2)
                                   @@ PutFile(288, 67)
      [] OTHER              -> <<>>

VolKinds == {"fat12", "fat_c48", "fat_t4", "fat32r", "fat16x2", "bigroot", "body_loop", "body_zero",
             "body_thr", "body12", "body_t4", "body_x2", "body32", "body_self"}

-----------------------------------------------------------------------------
(* The image file *)

\* The sectors the walker scenarios are built from: a partition table in
\* the last 66 bytes, with or without the boot-sector signature.
SectorBytes(kind) ==
    CASE kind = "leaf"     -> PutEntry(0, 131, 1, 1) @@ PutSignature
      [] kind = "leaf_far" -> PutEntry(1, 131, 9, 1) @@ PutSignature
      [] kind = "ebr"      -> PutEntry(0, 131, 1, 1) @@ PutEntry(1, 5, 1, 2) @@ PutSignature
      [] kind = "link1"    -> PutEntry(1, 5, 1, 3) @@ PutSignature
      [] kind = "link2"    -> PutEntry(2, 15, 2, 1) @@ PutSignature
      [] kind = "ebr_nosig" -> PutEntry(0, 131, 1, 1) @@ PutEntry(1, 5, 1, 2)
      [] kind = "far_ebr"  -> PutEntry(0, 131, 9, 1) @@ PutEntry(1, 5, 1, 2) @@ PutSignature
      [] kind = "chs"      -> PutEntry(0, 133, 0, 1) @@ PutSignature
      [] kind = "fork"     -> PutEntry(0, 5, 1, 1) @@ PutEntry(3, 5, 2, 1) @@ PutSignature
      [] kind = "gpt"      -> PutEntry(0, 238, 1, 1) @@ PutSignature
      [] kind = "gpt1"     -> PutEntry(1, 238, 1, 1) @@ PutSignature
      [] kind = "gpt_hdr"  -> PutGptHeader(GPT_HEADER_SIGNATURE, 65536, 92, 2, 2, 128)
      [] kind = "gpt_ents" -> PutGptEntry(0, 162, 3) @@ PutGptEntry(128, 0, 0) @@ PutGptEntry(256, 40, 3)
      [] kind = "leaf3"    -> PutEntry(0, 131, 3, 1) @@ PutSignature
      [] kind = "fat16"    -> PutBpb(128, 1, 4, 1, 4, 5000, 1, 0) @@ PutSignature
      [] kind = "nofat"    -> PutBpb(128, 1, 4, 0, 4, 5000, 1, 0) @@ PutSignature
      [] kind = "fat32"    -> PutBpb(128, 1, 4, 1, 0, 0, 1, 70000) @@ PutSignature
      [] kind = "body"     -> FatBody
      [] OTHER             -> IF kind \in GptKinds THEN GptSectorBytes(kind) ELSE VolSectorBytes(kind)

\* The kinds a sector of the image of a run is drawn from.
SectorKinds == {"blank", "leaf", "leaf_far", "ebr", "link1", "link2", "ebr_nosig", "far_ebr", "chs", "fork", "gpt",
                "leaf3", "fat16", "nofat", "fat32", "body", "gpt1", "gpt_hdr", "gpt_ents"}

\* The bytes of every kind of sector; a sector no read touched yet ("?")
\* has no byte settled.
SectorTable == [kind \in SectorKinds \cup GptKinds \cup VolKinds \cup {"?"} |-> SectorBytes(kind)]

\* Length of the image file in bytes.
ImageBytes == imageLen * BOOT_SECTOR_SIZE

\* The byte of image img at absolute offset off.
ByteAt(img, off) == Get(content[img[off \div BOOT_SECTOR_SIZE]], off % BOOT_SECTOR_SIZE)

\* The sectors of the file that a read of n bytes at off touches.
Touched(off, n) ==
    { s \in 0..(imageLen - 1) :
        n > 0 /\ s * BOOT_SECTOR_SIZE < off + n /\ (s + 1) * BOOT_SECTOR_SIZE > off }

RECURSIVE TouchedBy(_)
TouchedBy(rs) == IF rs = <<>> THEN {} ELSE Touched(rs[1].off, rs[1].len) \cup TouchedBy(Tail(rs))

\* The images that agree with img and settle the sectors of S not yet read.
Materialize(img, S) ==
    LET U == { s \in S : img[s] = "?" }
    IN  { [s \in DOMAIN img |-> IF s \in U THEN c[s] ELSE img[s]] : c \in [U -> SectorKinds] }

\* reader.seek(SeekFrom::Start(off)); reader.read_exact(buf) with buf.len() = n:
\* succeeds iff the file holds n bytes at off (a seek beyond the end of the
\* file succeeds, and so does the read of an empty buffer).
ReadOk(off, n) == n = 0 \/ off <= ImageBytes - n

\* The buffer a successful read_exact fills: buf[i] = image byte off + i.
ReadExact(img, off, n) ==
    LET idx == UNION { { s * BOOT_SECTOR_SIZE + r - off : r \in DOMAIN content[img[s]] }
                       : s \in Touched(off, n) }
    IN  [i \in { j \in idx : j >= 0 /\ j < n } |-> ByteAt(img, off + i)]

-----------------------------------------------------------------------------
(* bootsector.rs *)

\* A variant that takes the whole second byte as the sector.
CHSPosition_new_unmasked(data, o) ==
    [cylinder |-> ((Get(data, o + 1) \div 64) * 64) * 4 + Get(data, o + 2),
     head     |-> Get(data, o),
     sector   |-> Get(data, o + 1)]

\* CHSPosition::new(&data[o..o+3])
CHSPosition_new(data, o) ==
    [cylinder |-> ((Get(data, o + 1) \div 64) * 64) * 4 + Get(data, o + 2),
     head     |-> Get(data, o),
     sector   |-> Get(data, o + 1) % 64]

\* PartitionStatusFlag::from_u8: Bootable for bit 7, Unknown(i) for bits 0..6.
PartitionStatusFlag_from_u8(value) ==
    LET bit(i) == (value \div (2 ^ i)) % 2 = 1
        RECURSIVE rest(_)
        rest(i) == IF i >= 7 THEN <<>>
                   ELSE (IF bit(i) THEN <<[unknown |-> i]>> ELSE <<>>) \o rest(i + 1)
    IN  (IF bit(7) THEN <<"bootable">> ELSE <<>>) \o rest(0)

\* PartitionEntry::new(&data[o..])
PartitionEntry_new(data, o) ==
    [status         |-> PartitionStatusFlag_from_u8(Get(data, o)),
     chs_start      |-> CHSPosition_new(data, o + 1),
     partition_type |-> MBR_PARTITION_TYPES(Get(data, o + 4)),
     chs_end        |-> CHSPosition_new(data, o + 5),
     lba_start      |-> LE32(data, o + 8),
     sector_count   |-> LE32(data, o + 12)]

\* A variant that knows the extended type 0x05 only.
is_extended_0x05_only(p) == p.partition_type.code = 5

\* PartitionEntry::is_extended
is_extended(p) == p.partition_type.is_extended

\* BootSector::from_disk_image(reader, start_pos): no check of the signature.
BootSector_from_disk_image(img, start_pos) ==
    LET rd == <<[off |-> start_pos, len |-> BOOT_SECTOR_SIZE]>>
        data == ReadExact(img, start_pos, BOOT_SECTOR_SIZE)
    IN  IF ~ReadOk(start_pos, BOOT_SECTOR_SIZE)
        THEN [ok |-> FALSE, err |-> "Io", reads |-> rd]
        ELSE [ok |-> TRUE, reads |-> rd,
              bs |-> [partitions |->
                        [k \in 0..(PARTITION_TABLE_ENTRIES - 1) |->
                            PartitionEntry_new(data, PARTITION_TABLE_OFFSET + k * PARTITION_ENTRY_SIZE)],
                      signature |-> <<Get(data, BOOT_SECTOR_SIGNATURE_OFFSET),
                                      Get(data, BOOT_SECTOR_SIGNATURE_OFFSET + 1)>>]]

\* A variant that takes lba_start as an absolute sector number.
ExtendedStartPosAbsolute(p, my_boot_sector_start_pos) == p.lba_start * 512

\* The offset get_extended_boot_sector reads the next boot sector at.
ExtendedStartPos(p, my_boot_sector_start_pos) ==
    my_boot_sector_start_pos + p.lba_start * 512

\* A variant that looks at lba_start before the partition type.
get_extended_boot_sector_lba_first(img, p, my_boot_sector_start_pos) ==
    IF p.lba_start = 0
    THEN [ok |-> FALSE, err |-> "InvalidPartitionEntry", reads |-> <<>>]
    ELSE IF ~p.partition_type.is_extended
    THEN [ok |-> FALSE, err |-> "InvalidPartitionType", reads |-> <<>>]
    ELSE LET start_pos == my_boot_sector_start_pos + p.lba_start * 512
             r == BootSector_from_disk_image(img, start_pos)
         IN  IF r.ok
             THEN [ok |-> TRUE, bs |-> r.bs, start_pos |-> start_pos, reads |-> r.reads]
             ELSE [ok |-> FALSE, err |-> r.err, reads |-> r.reads]

\* A variant that follows an extended entry whose lba_start is 0.
get_extended_boot_sector_lba_zero(img, p, my_boot_sector_start_pos) ==
    IF ~p.partition_type.is_extended
    THEN [ok |-> FALSE, err |-> "InvalidPartitionType", reads |-> <<>>]
    ELSE LET start_pos == ExtendedStartPos(p, my_boot_sector_start_pos)
             r == BootSector_from_disk_image(img, start_pos)
         IN  IF r.ok
             THEN [ok |-> TRUE, bs |-> r.bs, start_pos |-> start_pos, reads |-> r.reads]
             ELSE [ok |-> FALSE, err |-> r.err, reads |-> r.reads]

\* PartitionEntry::get_extended_boot_sector(reader, my_boot_sector_start_pos)
get_extended_boot_sector(img, p, my_boot_sector_start_pos) ==
    IF ~p.partition_type.is_extended
    THEN [ok |-> FALSE, err |-> "InvalidPartitionType", reads |-> <<>>]
    ELSE IF p.lba_start = 0
    THEN [ok |-> FALSE, err |-> "InvalidPartitionEntry", reads |-> <<>>]
    ELSE LET start_pos == ExtendedStartPos(p, my_boot_sector_start_pos)
             r == BootSector_from_disk_image(img, start_pos)
         IN  IF r.ok
             THEN [ok |-> TRUE, bs |-> r.bs, start_pos |-> start_pos, reads |-> r.reads]
             ELSE [ok |-> FALSE, err |-> r.err, reads |-> r.reads]

-----------------------------------------------------------------------------
(* main.rs: run and print_mbr_partition_table *)

Top == stack[Len(stack)]

\* The partition the innermost print_mbr_partition_table call is looking at.
Cur == Top.bs.partitions[Top.i]

SetTop(f) == [stack EXCEPT ![Len(stack)] = f]

\* `run` returns Err(kind).
Fail(kind) == /\ result' = "err"
              /\ error' = kind
              /\ pc' = "done"

\* main.rs 119: the entry is printed unless type, LBA start and sector count are all 0.
NonEmpty(p) == p.partition_type.code > 0 \/ p.lba_start > 0 \/ p.sector_count > 0

\* main.rs 122: the entry is probed for a FAT filesystem.
Probed(p) == NonEmpty(p) /\ ~is_extended(p) /\ p.lba_start > 0

\* main.rs 123: the offset the FAT probe of entry p reads the FAT boot sector at.
ProbeOffset(p, start_pos) == p.lba_start * 512

\* A variant that swallows every error of the probe.
RecoveredAny(err) == TRUE

\* main.rs 139-145: the error of a FAT probe that print_mbr_partition_table
\* swallows; every other error is returned.
Recovered(err) == err = "InvalidSignature"

\* The first loop of print_mbr_partition_table moves to its next entry, or
\* hands over to the second loop.
NextDisplay ==
    IF Top.i + 1 < PARTITION_TABLE_ENTRIES
    THEN /\ stack' = SetTop([Top EXCEPT !.i = Top.i + 1])
         /\ pc' = "display"
    ELSE /\ stack' = SetTop([Top EXCEPT !.i = 0])
         /\ pc' = "follow"

\* run, main.rs 81-95: read the master boot record and check its signature.
RunReadMbr ==
    /\ pc = "start"
    /\ \E img \in Materialize(image, Touched(0, BOOT_SECTOR_SIZE)) :
         LET r == BootSector_from_disk_image(img, 0)
         IN  /\ image' = img
             /\ reads' = reads \o r.reads
             /\ IF ~r.ok
                THEN Fail(r.err) /\ UNCHANGED stack
                ELSE IF r.bs.signature # BOOT_SECTOR_SIGNATURE
                THEN Fail("InvalidSignature") /\ UNCHANGED stack
                ELSE /\ stack' = <<[bs |-> r.bs, start_pos |-> 0, i |-> 0]>>
                     /\ pc' = "display"
                     /\ UNCHANGED <<result, error>>
    /\ UNCHANGED <<imageLen, content, checked, shown, hops, probes, fatVars, arg, ret>>

\* print_mbr_partition_table, main.rs 118-149: one iteration of the first loop
\* for an entry that is not probed.
DisplayEntry ==
    /\ pc = "display"
    /\ ~Probed(Cur)
    /\ shown' = IF NonEmpty(Cur)
                THEN Append(shown, [at |-> Top.start_pos, idx |-> Top.i, ext |-> is_extended(Cur)])
                ELSE shown
    /\ NextDisplay
    /\ UNCHANGED <<image, imageLen, content, checked, result, error, hops, probes, reads, fatVars, arg, ret>>

\* print_mbr_partition_table, main.rs 151-156: the second loop skips an entry
\* that is not extended.
FollowSkip ==
    /\ pc = "follow"
    /\ Top.i < PARTITION_TABLE_ENTRIES
    /\ ~is_extended(Cur)
    /\ stack' = SetTop([Top EXCEPT !.i = Top.i + 1])
    /\ UNCHANGED <<image, imageLen, content, checked, pc, result, error, shown, hops, probes, reads, fatVars, arg, ret>>

\* print_mbr_partition_table, main.rs 152-154: the second loop follows an
\* extended entry and recurses into the boot sector it names.
FollowHop ==
    /\ pc = "follow"
    /\ Top.i < PARTITION_TABLE_ENTRIES
    /\ is_extended(Cur)
    /\ LET r0 == get_extended_boot_sector(image, Cur, Top.start_pos)
       IN  \E img \in Materialize(image, TouchedBy(r0.reads)) :
             LET r == get_extended_boot_sector(img, Cur, Top.start_pos)
             IN  /\ image' = img
                 /\ reads' = reads \o r.reads
                 /\ IF r.ok
                    THEN /\ hops' = Append(hops, [from |-> Top.start_pos, idx |-> Top.i,
                                                  lba |-> Cur.lba_start, depth |-> Len(stack),
                                                  at |-> r.reads[1].off, ret |-> r.start_pos,
                                                  sig |-> r.bs.signature])
                         /\ stack' = Append(SetTop([Top EXCEPT !.i = Top.i + 1]),
                                            [bs |-> r.bs, start_pos |-> r.start_pos, i |-> 0])
                         /\ pc' = "display"
                         /\ UNCHANGED <<result, error>>
                    ELSE /\ Fail(r.err)
                         /\ UNCHANGED <<hops, stack>>
    /\ UNCHANGED <<imageLen, content, checked, shown, probes, fatVars, arg, ret>>

\* print_mbr_partition_table, main.rs 158: Ok(()) to the caller.
FollowReturn ==
    /\ pc = "follow"
    /\ Top.i = PARTITION_TABLE_ENTRIES
    /\ IF Len(stack) > 1
       THEN /\ stack' = SubSeq(stack, 1, Len(stack) - 1)
            /\ pc' = "follow"
       ELSE /\ pc' = "gpt"
            /\ UNCHANGED stack
    /\ UNCHANGED <<image, imageLen, content, checked, result, error, shown, hops, probes, reads, fatVars, arg, ret>>

-----------------------------------------------------------------------------
(* fat.rs: FatBootSector *)

FAT_DIRECTORY_ENTRY_SIZE == 32

\* 32-bit values beyond 2^31 are held on two 16-bit limbs: hi * 65536 + lo.
\* A hi outside 0..65535 says the value left the u32 range.
WNorm(hi, lo) == [hi |-> hi + (lo \div 65536), lo |-> lo % 65536]

Wide(x) == WNorm(0, x)

WSub(a, b) == WNorm(a.hi - b.hi, a.lo - b.lo)

\* a * n for n < 256
WMul(a, n) == WNorm(a.hi * n, a.lo * n)

\* The value is not a u32: the operation overflowed.
WOut(a) == a.hi < 0 \/ a.hi >= 65536

\* The u32 a wrapping operation leaves.
WWrap(a) == [hi |-> a.hi % 65536, lo |-> a.lo]

\* a / d on u32, for d in 1..255
WDiv(a, d) == [hi |-> a.hi \div d, lo |-> ((a.hi % d) * 65536 + a.lo) \div d]

\* a < c, a >= c for a number c below 2^31
WLess(a, c) == a.hi < c \div 65536 \/ (a.hi = c \div 65536 /\ a.lo < c % 65536)

\* The number a holds, when it is below 2^31.
WInt(a) == a.hi * 65536 + a.lo

\* An offset no image of the model reaches: where the model holds the
\* offsets at or beyond 2^31 that a wrapped u32 produces.
Beyond == 65536 * 32767

\* data[a..b] as a sequence of bytes.
Slice(data, a, b) == [i \in 1..(b - a) |-> Get(data, a + i - 1)]

None == [some |-> FALSE]
Some(v) == [some |-> TRUE, v |-> v]

\* fat.rs 248-251: the sectors left for data clusters, on u32.  `wrapped`
\* tells whether a subtraction or the multiplication left the u32 range.
DataSectors(sectors_in_filesystem, reserved_sectors, number_of_fats, sectors_per_fat, root_directory_entries, bytes_per_sector) ==
    LET s1   == WSub(Wide(sectors_in_filesystem), Wide(reserved_sectors))
        mul  == WMul(Wide(sectors_per_fat), number_of_fats)
        s2   == WSub(WWrap(s1), WWrap(mul))
        root == (root_directory_entries * FAT_DIRECTORY_ENTRY_SIZE) \div bytes_per_sector
        s3   == WSub(WWrap(s2), Wide(root))
    IN  [value |-> WWrap(s3),
         wrapped |-> WOut(s1) \/ WOut(mul) \/ WOut(s2) \/ WOut(s3)]

\* A variant whose FAT12 range takes 4085 clusters in.
FatTypeOfInclusive(data_clusters) ==
    IF WLess(data_clusters, 4086) THEN "Fat12"
    ELSE IF WLess(data_clusters, 65525) THEN "Fat16"
    ELSE "Fat32"

\* fat.rs 256-258, 285: the FAT width for a count of data clusters.
FatTypeOf(data_clusters) ==
    IF WLess(data_clusters, 4085) THEN "Fat12"
    ELSE IF ~WLess(data_clusters, 4085) /\ WLess(data_clusters, 65525) THEN "Fat16"
    ELSE "Fat32"

\* fat.rs 260-283: the FAT16 variant of the extended BIOS parameter block.
Fat16BootExtra(data) ==
    LET extended_signature == Get(data, 38)
    IN  [type |-> "Fat16",
         logical_drive_number |-> Get(data, 36),
         flags |-> Get(data, 37),
         extended_signature |-> extended_signature,
         extended_signature_offset |-> 38,
         serial_number |-> IF extended_signature \in {40, 41} THEN Some(LE32(data, 39)) ELSE None,
         volume_label |-> IF extended_signature = 41 THEN Some(Slice(data, 43, 54)) ELSE None,
         file_system_type |-> IF extended_signature = 41 THEN Some(Slice(data, 54, 62)) ELSE None]

\* fat.rs 287-322: the FAT32 variant; the extended signature is read at 0x37.
Fat32BootExtra(data) ==
    LET extended_signature == Get(data, 55)
    IN  [type |-> "Fat32",
         mirror_flags |-> LE16(data, 40),
         filesystem_version |-> LE16(data, 42),
         root_directory_cluster |-> LE32(data, 44),
         fsinfo_sector |-> LE16(data, 48),
         backup_boot_sector |-> LE16(data, 50),
         reserved |-> Slice(data, 52, 64),
         logical_drive_number |-> Get(data, 64),
         reserved2 |-> Get(data, 65),
         extended_signature |-> extended_signature,
         extended_signature_offset |-> 55,
         serial_number |-> IF extended_signature \in {40, 41} THEN Some(LE32(data, 67)) ELSE None,
         volume_label |-> IF extended_signature = 41 THEN Some(Slice(data, 71, 82)) ELSE None,
         file_system_type |-> IF extended_signature = 41 THEN Some(Slice(data, 82, 90)) ELSE None]

\* fat.rs 256-324: the variant record for the FAT width.
FatBootSectorExtra(data, data_clusters) ==
    LET t == FatTypeOf(data_clusters)
    IN  IF t = "Fat12" THEN [type |-> "Fat12"]
        ELSE IF t = "Fat16" THEN Fat16BootExtra(data)
        ELSE Fat32BootExtra(data)

\* fat.rs 227-234: the 16-bit sector count at 0x13, or the 32-bit one at 0x20.
SectorsInFilesystem(data) == IF LE16(data, 19) = 0 THEN LE32(data, 32) ELSE LE16(data, 19)

\* fat.rs 237-243: the 16-bit sectors per FAT at 0x16, or the 32-bit one at 0x24.
SectorsPerFat(data) == IF LE16(data, 22) = 0 THEN LE32(data, 36) ELSE LE16(data, 22)

\* FatBootSector::from_partition_image on the 512 bytes read, fat.rs 214-343.
\* kind "err": Err(InvalidSignature); kind "panic": division by zero, or an
\* arithmetic overflow in a build that checks overflow (chk).
FatBootSector_decode(data, chk) ==
    LET signature == <<Get(data, 510), Get(data, 511)>>
        bytes_per_sector == LE16(data, 11)
        sectors_per_cluster == Get(data, 13)
        reserved_sectors == LE16(data, 14)
        number_of_fats == Get(data, 16)
        root_directory_entries == LE16(data, 17)
        sectors_in_filesystem == SectorsInFilesystem(data)
        sectors_per_fat == SectorsPerFat(data)
        ds == DataSectors(sectors_in_filesystem, reserved_sectors, number_of_fats,
                          sectors_per_fat, root_directory_entries, bytes_per_sector)
        data_clusters == WDiv(ds.value, sectors_per_cluster)
    IN  IF signature # <<85, 170>> THEN [kind |-> "err", err |-> "InvalidSignature"]
        ELSE IF bytes_per_sector = 0 \/ sectors_per_cluster = 0 THEN [kind |-> "panic"]
        ELSE IF chk /\ ds.wrapped THEN [kind |-> "panic"]
        ELSE [kind |-> "ok",
              jump_instruction |-> Slice(data, 0, 3),
              oem_name |-> Slice(data, 3, 11),
              bytes_per_sector |-> bytes_per_sector,
              sectors_per_cluster |-> sectors_per_cluster,
              reserved_sectors |-> reserved_sectors,
              number_of_fats |-> number_of_fats,
              root_directory_entries |-> root_directory_entries,
              sectors_in_filesystem |-> sectors_in_filesystem,
              media_descriptor |-> Get(data, 21),
              sectors_per_fat |-> sectors_per_fat,
              sectors_per_track |-> LE16(data, 24),
              number_of_heads |-> LE16(data, 26),
              hidden_sectors |-> LE32(data, 28),
              signature |-> signature,
              data_sectors |-> ds.value,
              data_clusters |-> data_clusters,
              extra |-> FatBootSectorExtra(data, data_clusters)]

\* FatBootSector::get_fat_table_offset
get_fat_table_offset(bs, fat_index) ==
    (bs.reserved_sectors + fat_index * bs.sectors_per_fat) * bs.bytes_per_sector

\* FatBootSector::get_root_directory_offset
get_root_directory_offset(bs) == get_fat_table_offset(bs, bs.number_of_fats)

\* FatBootSector::get_data_start_offset
get_data_start_offset(bs) ==
    get_root_directory_offset(bs) + bs.root_directory_entries * FAT_DIRECTORY_ENTRY_SIZE

\* FatBootSector::get_bytes_per_cluster
get_bytes_per_cluster(bs) == bs.sectors_per_cluster * bs.bytes_per_sector

-----------------------------------------------------------------------------
(* fat.rs: the FAT table decoder of FatPartition::from_partition_image *)

\* A variant that does not mask the high nibble of the middle byte.
Fat12FirstUnmasked(b0, b1) == b0 + b1 * 256

\* fat.rs 92: fat_table_bytes[i] as u32 | (fat_table_bytes[i + 1] as u32 & 0x0f) << 8
Fat12First(b0, b1) == b0 + (b1 % 16) * 256

\* fat.rs 93-94: ((fat_table_bytes[i + 1] as u32 & 0xf0) >> 4) | ((fat_table_bytes[i + 2] as u32) << 4)
Fat12Second(b1, b2) == (((b1 \div 16) * 16) \div 16) + b2 * 16

\* fat.rs 106: u16::from_le_bytes(fat_table_bytes[i..i + 2]) as u32
Fat16Entry(bytes, i) == LE16(bytes, i)

\* fat.rs 115: the slice fat_table_bytes[i..i + 2] that FAT32 decoding converts.
Fat32Slice(bytes, i) == Slice(bytes, i, i + 2)

\* <[u8; 4]>::try_from(slice): Ok only for a slice of 4 bytes.
TryInto4(slice) == Len(slice) = 4

\* u32::from_le_bytes of a 4-byte array held as a sequence.
U32FromLeBytes(a) == a[1] + 256 * a[2] + 65536 * a[3] + 16777216 * a[4]

Panicked == [panic |-> TRUE, table |-> <<>>]

\* The number of iterations of `for i in (0..size).step_by(step)`; iteration
\* j (from 1) runs with i = (j - 1) * step.
Iterations(size, step) == (size + step - 1) \div step

\* fat.rs 91-98: the loop `for i in (0..fat_table_size).step_by(3)` pushes two
\* entries per iteration.  Indexing fat_table_bytes at or beyond
\* fat_table_size panics.
Fat12Loop(bytes, size) ==
    LET n == Iterations(size, 3)
    IN  IF \E j \in 1..n : (j - 1) * 3 + 1 >= size \/ (j - 1) * 3 + 2 >= size
        THEN Panicked
        ELSE [panic |-> FALSE,
              table |-> [k \in 1..(2 * n) |->
                  LET i == ((k - 1) \div 2) * 3
                  IN  IF k % 2 = 1 THEN Fat12First(Get(bytes, i), Get(bytes, i + 1))
                      ELSE Fat12Second(Get(bytes, i + 1), Get(bytes, i + 2))]]

\* fat.rs 105-107: the loop `for i in (0..fat_table_size).step_by(2)`.
\* The slice i..i+2 panics when it ends beyond fat_table_size.
Fat16Loop(bytes, size) ==
    LET n == Iterations(size, 2)
    IN  IF \E j \in 1..n : (j - 1) * 2 + 2 > size
        THEN Panicked
        ELSE [panic |-> FALSE, table |-> [k \in 1..n |-> Fat16Entry(bytes, (k - 1) * 2)]]

\* fat.rs 114-116: the loop `for i in (0..fat_table_size).step_by(4)`.
\* try_into().unwrap() panics unless the slice holds 4 bytes.
Fat32Loop(bytes, size) ==
    LET n == Iterations(size, 4)
    IN  IF \E j \in 1..n : (j - 1) * 4 + 2 > size \/ ~TryInto4(Fat32Slice(bytes, (j - 1) * 4))
        THEN Panicked
        ELSE [panic |-> FALSE,
              table |-> [k \in 1..n |-> U32FromLeBytes(Fat32Slice(bytes, (k - 1) * 4))]]

\* fat.rs 86-120: one table copy of fat_table_size bytes decoded for fat_type.
DecodeFatTable(fat_type, bytes, size) ==
    IF fat_type = "Fat12" THEN Fat12Loop(bytes, size)
    ELSE IF fat_type = "Fat16" THEN Fat16Loop(bytes, size)
    ELSE Fat32Loop(bytes, size)

\* fat.rs 170-174: the value read from the table ends the cluster chain.
EndOfChain(fat_type, cluster) ==
    \/ cluster = 0
    \/ cluster = 1
    \/ (fat_type = "Fat12" /\ cluster >= 4088)
    \/ (fat_type = "Fat16" /\ cluster >= 65528)
    \/ (fat_type = "Fat32" /\ cluster % 268435456 >= 268435448)

-----------------------------------------------------------------------------
(* fat.rs: FatDirectoryEntry *)

FAT_ATTRIBUTE_DIRECTORY == 16

\* FatDirectoryEntry::from_data(&data[o..o+32], fat_type); the timestamps,
\* which no decision of the program reads, are left out.
FatDirectoryEntry_from_data(data, o, fat_type) ==
    LET cluster_start_high == IF fat_type = "Fat32" THEN LE16(data, o + 20) * 65536 ELSE 0
    IN  [filename   |-> Slice(data, o, o + 8),
         extension  |-> Slice(data, o + 8, o + 11),
         attributes |-> Get(data, o + 11),
         reserved   |-> Get(data, o + 12),
         extended_attributes_cluster |->
             IF fat_type = "Fat32" THEN None ELSE Some(LE16(data, o + 20)),
         first_cluster |-> LE16(data, o + 26) + cluster_start_high,
         file_size  |-> LE32(data, o + 28)]

\* FatDirectoryEntry::is_valid
is_valid(e) == e.filename[1] # 0 /\ e.extension[1] # 0

\* FatDirectoryEntry::is_directory
is_directory(e) == is_valid(e) /\ (e.attributes \div FAT_ATTRIBUTE_DIRECTORY) % 2 = 1

\* String::from_cp437(_, &CP437_WINGDINGS) on one byte: the code point.
\* Printable ASCII maps to itself; every other byte maps to a code point of
\* its own outside ASCII (0xE5 to U+03C3), written here as 1000 + b.
Cp437(b) == IF b >= 32 /\ b <= 126 THEN b ELSE IF b = 229 THEN 963 ELSE 1000 + b

\* str::trim_end_matches(' ')
RECURSIVE TrimEnd(_)
TrimEnd(str) == IF str # <<>> /\ str[Len(str)] = 32 THEN TrimEnd(SubSeq(str, 1, Len(str) - 1)) ELSE str

\* A variant without the 0x05 escape for a first character 0xE5.
get_filename_no_escape(e) ==
    IF e.filename[1] = 0 THEN None
    ELSE LET raw == IF e.filename[1] = 229 THEN <<63>> \o SubSeq(e.filename, 2, 8)
                    ELSE e.filename
             basename == TrimEnd([i \in 1..Len(raw) |-> Cp437(raw[i])])
             ext == TrimEnd([i \in 1..3 |-> Cp437(e.extension[i])])
         IN  IF ext = <<>> THEN Some(basename) ELSE Some(basename \o <<46>> \o ext)

\* FatDirectoryEntry::get_filename
get_filename(e) ==
    IF e.filename[1] = 0 THEN None
    ELSE LET raw == IF e.filename[1] = 5 THEN <<229>> \o SubSeq(e.filename, 2, 8)
                    ELSE IF e.filename[1] = 229 THEN <<63>> \o SubSeq(e.filename, 2, 8)
                    ELSE e.filename
             basename == TrimEnd([i \in 1..Len(raw) |-> Cp437(raw[i])])
             ext == TrimEnd([i \in 1..3 |-> Cp437(e.extension[i])])
         IN  IF ext = <<>> THEN Some(basename) ELSE Some(basename \o <<46>> \o ext)

\* main.rs 177-179: print_fat_directory descends into the entry.
Descends(e) ==
    /\ is_directory(e)
    /\ get_filename(e).some
    /\ get_filename(e).v # <<46>>
    /\ get_filename(e).v # <<46, 46>>

\* FatBootSector::get_cluster_offset.  For cluster < 2 the u32 cluster - 2
\* wraps (a build that checks overflow panics before) and the offset is
\* beyond 2^32 - 2.
get_cluster_offset(bs, cluster) ==
    IF cluster < 2 THEN Beyond
    ELSE get_data_start_offset(bs)
             + bs.sectors_per_cluster * bs.bytes_per_sector * (cluster - 2)

-----------------------------------------------------------------------------
(* The FAT probe: FatPartition::from_partition_image, get_root_directory_entries,
   print_fat_directory, get_directory_at_cluster *)

\* Bounds of the directory walk.
MaxDirDepth == 3
MaxChain == 3

\* The process aborts: a panic unwinds out of main.
Panic == /\ result' = "panic"
         /\ error' = "panic"
         /\ pc' = "done"

\* The builds an overflow-dependent result is drawn from: rT is the result
\* of the overflow-checking build, rF of the wrapping one.
Builds(rT, rF) == IF rT = rF \/ checked # "?" THEN {checked} ELSE {"debug", "release"}

\* FatBootSector::from_partition_image(reader, start_pos), fat.rs 204-343.
FatBootSector_from_partition_image(img, start_pos, chk) ==
    IF ~ReadOk(start_pos, BOOT_SECTOR_SIZE)
    THEN [kind |-> "err", err |-> "Io"]
    ELSE FatBootSector_decode(ReadExact(img, start_pos, BOOT_SECTOR_SIZE), chk)

\* fat.rs 79: fat_table_size
FatTableSize(bs) == bs.sectors_per_fat * bs.bytes_per_sector

\* The read of table copy i, fat.rs 81-84.
FatTableRead(f, i) ==
    [off |-> f.offset + get_fat_table_offset(f.boot_sector, i), len |-> FatTableSize(f.boot_sector)]

\* A variant that returns the records read before the first failed read.
get_root_directory_entries_partial(img, f) ==
    LET n    == f.boot_sector.root_directory_entries
        base == f.offset + get_root_directory_offset(f.boot_sector)
        m    == Cardinality({ j \in 0..(n - 1) :
                                ReadOk(base + j * FAT_DIRECTORY_ENTRY_SIZE, FAT_DIRECTORY_ENTRY_SIZE) })
    IN  [ok |-> TRUE,
         reads |-> [j \in 1..m |-> [off |-> base + (j - 1) * FAT_DIRECTORY_ENTRY_SIZE,
                                    len |-> FAT_DIRECTORY_ENTRY_SIZE]],
         entries |-> [j \in 1..m |->
             FatDirectoryEntry_from_data(
                 ReadExact(img, base + (j - 1) * FAT_DIRECTORY_ENTRY_SIZE, FAT_DIRECTORY_ENTRY_SIZE),
                 0, f.fat_type)]]

\* FatPartition::get_root_directory_entries, fat.rs 132-144: a seek, then
\* root_directory_entries reads of 32 bytes; the first read that fails ends it.
get_root_directory_entries(img, f) ==
    LET n    == f.boot_sector.root_directory_entries
        base == f.offset + get_root_directory_offset(f.boot_sector)
        good == { j \in 0..(n - 1) : ReadOk(base + j * FAT_DIRECTORY_ENTRY_SIZE, FAT_DIRECTORY_ENTRY_SIZE) }
        m    == Cardinality(good)
        rd(k) == [j \in 1..k |-> [off |-> base + (j - 1) * FAT_DIRECTORY_ENTRY_SIZE,
                                  len |-> FAT_DIRECTORY_ENTRY_SIZE]]
    IN  IF m = n
        THEN [ok |-> TRUE, reads |-> rd(n),
              entries |-> [j \in 1..n |->
                  FatDirectoryEntry_from_data(
                      ReadExact(img, base + (j - 1) * FAT_DIRECTORY_ENTRY_SIZE, FAT_DIRECTORY_ENTRY_SIZE),
                      0, f.fat_type)]]
        ELSE [ok |-> FALSE, err |-> "Io", reads |-> rd(m + 1), entries |-> <<>>]

\* main.rs 168-174: print_fat_directory prints the valid entries.
Listing(entries) == [ev |-> "dir", names |-> [j \in { i \in 1..Len(entries) : is_valid(entries[i]) }
                                                |-> get_filename(entries[j]).v]]

\* The FAT probe of the current MBR entry is over: the first loop goes on.
ProbeDone == /\ NextDisplay
             /\ fp' = <<>>

\* main.rs 120-123 and fat.rs 67: the entry is printed and the FAT boot
\* sector of the partition is read and decoded.
DisplayProbe ==
    /\ pc = "display"
    /\ Probed(Cur)
    /\ LET at == ProbeOffset(Cur, Top.start_pos)
       IN  \E img \in Materialize(image, Touched(at, BOOT_SECTOR_SIZE)) :
             LET rT == FatBootSector_from_partition_image(img, at, TRUE)
                 rF == FatBootSector_from_partition_image(img, at, FALSE)
             IN  \E c \in Builds(rT, rF) :
                   LET r == IF c = "debug" THEN rT ELSE rF
                       p == [from |-> Top.start_pos, idx |-> Top.i, lba |-> Cur.lba_start, at |-> at,
                             outcome |-> IF r.kind = "err" THEN r.err ELSE r.kind]
                   IN  /\ image' = img
                       /\ checked' = c
                       /\ reads' = Append(reads, [off |-> at, len |-> BOOT_SECTOR_SIZE])
                       /\ shown' = Append(shown, [at |-> Top.start_pos, idx |-> Top.i, ext |-> FALSE])
                       /\ probes' = Append(probes, p)
                       /\ CASE r.kind = "err" /\ Recovered(r.err) ->
                                 /\ ProbeDone
                                 /\ log' = Append(log, [ev |-> "not_fat"])
                                 /\ UNCHANGED <<result, error>>
                            [] r.kind = "err" /\ ~Recovered(r.err) ->
                                 /\ Fail(r.err)
                                 /\ log' = Append(log, [ev |-> "boot_failed"])
                                 /\ UNCHANGED <<stack, fp>>
                            [] r.kind = "panic" ->
                                 /\ Panic
                                 /\ UNCHANGED <<stack, fp, log>>
                            [] r.kind = "ok" ->
                                 /\ fp' = [offset |-> at, boot_sector |-> r,
                                           fat_type |-> r.extra.type, fat_tables |-> <<>>]
                                 /\ pc' = "fat_tables"
                                 /\ UNCHANGED <<stack, result, error, log>>
    /\ UNCHANGED <<imageLen, content, hops, dstack, chain, gpt, arg, ret>>

\* fat.rs 80-121: one table copy is read and decoded, for the probe of an
\* MBR entry or of a GPT entry.
FatTableCopy ==
    /\ pc \in {"fat_tables", "gpt_tables"}
    /\ Len(fp.fat_tables) < fp.boot_sector.number_of_fats
    /\ LET rd == FatTableRead(fp, Len(fp.fat_tables))
       IN  \E img \in Materialize(image, Touched(rd.off, rd.len)) :
             LET t == DecodeFatTable(fp.fat_type, ReadExact(img, rd.off, rd.len), rd.len)
             IN  /\ image' = img
                 /\ reads' = Append(reads, rd)
                 /\ IF ~ReadOk(rd.off, rd.len)
                    THEN /\ Fail("Io")
                         /\ log' = Append(log, [ev |-> "table_failed"])
                         /\ UNCHANGED fp
                    ELSE IF t.panic
                    THEN /\ Panic
                         /\ UNCHANGED <<fp, log>>
                    ELSE /\ fp' = [fp EXCEPT !.fat_tables = Append(@, t.table)]
                         /\ UNCHANGED <<pc, result, error, log>>
    /\ UNCHANGED <<imageLen, content, checked, stack, shown, hops, probes, dstack, chain, gpt, arg, ret>>

\* main.rs 124-137: Ok(fp); the root directory is read and, when that
\* succeeds, print_fat_directory is entered.
FatRootDirectory ==
    /\ pc = "fat_tables"
    /\ Len(fp.fat_tables) = fp.boot_sector.number_of_fats
    /\ LET r0 == get_root_directory_entries(image, fp)
       IN  \E img \in Materialize(image, TouchedBy(r0.reads)) :
             LET r == get_root_directory_entries(img, fp)
             IN  /\ image' = img
                 /\ reads' = reads \o r.reads
                 /\ IF r.ok
                    THEN /\ dstack' = <<[entries |-> r.entries, k |-> 1]>>
                         /\ log' = log \o <<[ev |-> "fat"], Listing(r.entries)>>
                         /\ pc' = "fat_dir"
                         /\ UNCHANGED <<stack, fp>>
                    ELSE /\ log' = log \o <<[ev |-> "fat"], [ev |-> "root_failed"]>>
                         /\ ProbeDone
                         /\ UNCHANGED dstack
    /\ UNCHANGED <<imageLen, content, checked, result, error, shown, hops, probes, chain, gpt, arg, ret>>


DTop == dstack[Len(dstack)]

DCur == DTop.entries[DTop.k]

\* The second loop of the innermost print_fat_directory moves to its next entry.
DNext == [dstack EXCEPT ![Len(dstack)].k = @ + 1]

\* fat.rs 161-167: the 32-byte records of one cluster, in order.
ClusterEntries(data, size, fat_type) ==
    [j \in 1..(size \div FAT_DIRECTORY_ENTRY_SIZE) |->
        FatDirectoryEntry_from_data(data, (j - 1) * FAT_DIRECTORY_ENTRY_SIZE, fat_type)]

\* main.rs 176-179: an entry print_fat_directory does not descend into.
DirSkip ==
    /\ pc = "fat_dir"
    /\ DTop.k <= Len(DTop.entries)
    /\ ~Descends(DCur)
    /\ dstack' = DNext
    /\ UNCHANGED <<image, imageLen, content, checked, pc, stack, result, error, shown, hops, probes, reads,
                   fp, chain, log, gpt, arg, ret>>

\* main.rs 181, fat.rs 621-626, 146-152: get_directory_at_cluster is called
\* with the first cluster of the entry.
DirDescend ==
    /\ pc = "fat_dir"
    /\ DTop.k <= Len(DTop.entries)
    /\ Descends(DCur)
    /\ chain' = [cluster |-> DCur.first_cluster, entries |-> <<>>, n |-> 0]
    /\ pc' = "fat_chain"
    /\ UNCHANGED <<image, imageLen, content, checked, stack, result, error, shown, hops, probes, reads,
                   fp, dstack, log, gpt, arg, ret>>

\* A variant that follows the chain in the last table copy.
ChainTableLast(f) == f.fat_tables[Len(f.fat_tables)]

\* fat.rs 169: the table copy the chain is followed in, self.fat_tables[0].
ChainTable(f) == f.fat_tables[1]

\* fat.rs 154-178: one iteration of the loop of get_directory_at_cluster,
\* and main.rs 182-185 when the call returns.
ChainStep ==
    /\ pc = "fat_chain"
    /\ chain.n < MaxChain
    /\ LET bs    == fp.boot_sector
           under == chain.cluster < 2
           off   == IF under THEN Beyond ELSE fp.offset + get_cluster_offset(bs, chain.cluster)
           size  == get_bytes_per_cluster(bs)
       IN  \E c \in (IF under /\ checked = "?" THEN {"debug", "release"} ELSE {checked}) :
           \E img \in Materialize(image, IF under /\ c = "debug" THEN {} ELSE Touched(off, size)) :
             LET all  == chain.entries \o ClusterEntries(ReadExact(img, off, size), size, fp.fat_type)
                 next == ChainTable(fp)[chain.cluster + 1]
             IN  /\ checked' = c
                 /\ image' = img
                 /\ IF under /\ c = "debug"
                    THEN /\ Panic
                         /\ UNCHANGED <<reads, dstack, chain, log>>
                    ELSE /\ reads' = Append(reads, [off |-> off, len |-> size])
                         /\ IF ~ReadOk(off, size)
                            THEN /\ log' = Append(log, [ev |-> "subdir_failed"])
                                 /\ dstack' = DNext
                                 /\ chain' = <<>>
                                 /\ pc' = "fat_dir"
                                 /\ UNCHANGED <<result, error>>
                            ELSE IF \/ size % FAT_DIRECTORY_ENTRY_SIZE # 0
                                    \/ fp.fat_tables = <<>>
                                    \/ chain.cluster >= Len(ChainTable(fp))
                            THEN /\ Panic
                                 /\ UNCHANGED <<dstack, chain, log>>
                            ELSE IF EndOfChain(fp.fat_type, next)
                            THEN /\ Len(dstack) < MaxDirDepth
                                 /\ log' = Append(log, Listing(all))
                                 /\ dstack' = Append(DNext, [entries |-> all, k |-> 1])
                                 /\ chain' = <<>>
                                 /\ pc' = "fat_dir"
                                 /\ UNCHANGED <<result, error>>
                            ELSE /\ chain' = [cluster |-> next, entries |-> all, n |-> chain.n + 1]
                                 /\ UNCHANGED <<pc, result, error, dstack, log>>
    /\ UNCHANGED <<imageLen, content, stack, shown, hops, probes, fp, gpt, arg, ret>>

\* main.rs 191: print_fat_directory returns; the outermost call returns to
\* the first loop of print_mbr_partition_table.
DirReturn ==
    /\ pc = "fat_dir"
    /\ DTop.k > Len(DTop.entries)
    /\ dstack' = SubSeq(dstack, 1, Len(dstack) - 1)
    /\ IF Len(dstack) > 1
       THEN UNCHANGED <<pc, stack, fp>>
       ELSE ProbeDone
    /\ UNCHANGED <<image, imageLen, content, checked, result, error, shown, hops, probes, reads,
                   chain, log, gpt, arg, ret>>

-----------------------------------------------------------------------------
(* gpt.rs *)

\* u64::from_le_bytes(data[o..o+8]) of an LBA.  The model holds an LBA of
\* 2^24 or more, which no image of the model reaches, as Beyond.
LE64(data, o) ==
    IF \A k \in 3..7 : Get(data, o + k) = 0
    THEN Get(data, o) + 256 * Get(data, o + 1) + 65536 * Get(data, o + 2)
    ELSE Beyond

\* lba as u64 * 512
Lba512(lba) == IF lba >= 4194304 THEN Beyond ELSE lba * 512

\* A variant that takes the sixteen bytes in stored order.
read_big_endian_uuid(data, o) == Slice(data, o, o + 16)

\* read_mixed_endian_uuid(&data[o..o+16]): the 16 bytes of the Uuid that
\* Uuid::from_fields builds, the first three fields from little-endian.
read_mixed_endian_uuid(data, o) ==
    <<Get(data, o + 3), Get(data, o + 2), Get(data, o + 1), Get(data, o),
      Get(data, o + 5), Get(data, o + 4), Get(data, o + 7), Get(data, o + 6)>>
        \o Slice(data, o + 8, o + 16)

\* Uuid::as_u128() != 0
UuidNonZero(uuid) == \E k \in 1..16 : uuid[k] # 0

\* A variant that checks the header size before the revision.
GptHeader_decode_size_first(data) ==
    IF Slice(data, 0, 8) # GPT_HEADER_SIGNATURE
    THEN [ok |-> FALSE, err |-> "InvalidGptHeaderSignature"]
    ELSE IF LE32(data, 12) # GPT_HEADER_1_0_SIZE
    THEN [ok |-> FALSE, err |-> "InvalidGptHeaderSize"]
    ELSE IF LE32(data, 8) < GPT_REVISION_1_0
    THEN [ok |-> FALSE, err |-> "InvalidGptHeaderRevision"]
    ELSE [ok |-> TRUE,
          header |-> [partition_table_lba |-> LE64(data, 72), partition_count |-> LE32(data, 80),
                      partition_entry_size |-> LE32(data, 84)]]

\* GptHeader::new on the 92 bytes read, gpt.rs 42-85.
GptHeader_decode(data) ==
    IF Slice(data, 0, 8) # GPT_HEADER_SIGNATURE
    THEN [ok |-> FALSE, err |-> "InvalidGptHeaderSignature"]
    ELSE IF LE32(data, 8) < GPT_REVISION_1_0
    THEN [ok |-> FALSE, err |-> "InvalidGptHeaderRevision"]
    ELSE IF LE32(data, 12) # GPT_HEADER_1_0_SIZE
    THEN [ok |-> FALSE, err |-> "InvalidGptHeaderSize"]
    ELSE [ok |-> TRUE,
          header |-> [signature |-> Slice(data, 0, 8),
                      revision |-> LE32(data, 8),
                      header_size |-> LE32(data, 12),
                      crc32 |-> LE32(data, 16),
                      reserved1 |-> Slice(data, 20, 24),
                      current_lba |-> LE64(data, 24),
                      backup_lba |-> LE64(data, 32),
                      first_usable_lba |-> LE64(data, 40),
                      last_usable_lba |-> LE64(data, 48),
                      disk_guid |-> read_mixed_endian_uuid(data, 56),
                      partition_table_lba |-> LE64(data, 72),
                      partition_count |-> LE32(data, 80),
                      partition_entry_size |-> LE32(data, 84),
                      partition_entry_array_crc32 |-> LE32(data, 88)]]

\* GptHeader::new(reader, offset), gpt.rs 36-86.
GptHeader_new(img, offset) ==
    IF ~ReadOk(offset, GPT_HEADER_1_0_SIZE)
    THEN [ok |-> FALSE, err |-> "Io"]
    ELSE GptHeader_decode(ReadExact(img, offset, GPT_HEADER_1_0_SIZE))

\* A variant that reads as many bytes as the header declares for an entry.
GptEntryBytesDeclared(header) == header.partition_entry_size

\* gpt.rs 278: the buffer GptPartitionEntry::new reads an entry into.
GptEntryBytes(header) == 128

\* main.rs 198, 204: the offset entry i is read at.
GptEntryOffset(header, i) ==
    IF header.partition_table_lba >= 4194304 THEN Beyond
    ELSE Lba512(header.partition_table_lba) + header.partition_entry_size * i

\* GptPartitionEntry::new on the bytes read, gpt.rs 281-295.
GptPartitionEntry_decode(data) ==
    [partition_type |-> read_mixed_endian_uuid(data, 0),
     unique_partition_guid |-> read_mixed_endian_uuid(data, 16),
     starting_lba |-> LE64(data, 32),
     ending_lba |-> LE64(data, 40),
     attributes |-> Slice(data, 48, 56),
     name |-> Slice(data, 56, 128)]

\* A variant of the test of main.rs 103 that looks at every MBR entry.
GptProtectiveAny(bs) ==
    \E k \in 0..(PARTITION_TABLE_ENTRIES - 1) : bs.partitions[k].partition_type.code = MBR_GPT_PARTITION_TYPE

\* main.rs 102-103: the first MBR entry has the GPT protective type.
GptProtective(bs) == bs.partitions[0].partition_type.code = MBR_GPT_PARTITION_TYPE

\* run, main.rs 102-110: after the MBR walk, print_gpt_partition_table is
\* called with lba_start * 512 of the first MBR entry when that entry has
\* the type 0xEE; otherwise the run ends with Ok.
RunAfterMbr ==
    /\ pc = "gpt"
    /\ IF GptProtective(stack[1].bs)
       THEN /\ pc' = "gpt_header"
            /\ gpt' = [pos |-> stack[1].bs.partitions[0].lba_start * 512, header |-> <<>>, i |-> 0,
                       reads |-> <<>>, shown |-> <<>>, probed |-> <<>>]
            /\ UNCHANGED <<result, error>>
       ELSE /\ result' = "ok"
            /\ pc' = "done"
            /\ UNCHANGED <<error, gpt>>
    /\ UNCHANGED <<image, imageLen, content, checked, stack, shown, hops, probes, reads, fp, dstack, chain, log,
                   arg, ret>>

\* print_gpt_partition_table, main.rs 197-200: the header is read and decoded.
GptHeaderRead ==
    /\ pc = "gpt_header"
    /\ \E img \in Materialize(image, Touched(gpt.pos, GPT_HEADER_1_0_SIZE)) :
         LET r == GptHeader_new(img, gpt.pos)
         IN  /\ image' = img
             /\ reads' = Append(reads, [off |-> gpt.pos, len |-> GPT_HEADER_1_0_SIZE])
             /\ IF r.ok
                THEN /\ gpt' = [gpt EXCEPT !.header = r.header]
                     /\ pc' = "gpt_entry"
                     /\ UNCHANGED <<result, error>>
                ELSE /\ Fail(r.err)
                     /\ UNCHANGED gpt
    /\ UNCHANGED <<imageLen, content, checked, stack, shown, hops, probes, fp, dstack, chain, log, arg, ret>>

\* The loop of print_gpt_partition_table moves to its next entry.
GptNext(g) == [g EXCEPT !.i = @ + 1]

\* print_gpt_partition_table, main.rs 202-224: one iteration of the loop up
\* to the decoding of the FAT boot sector: the entry is read; an entry whose
\* type GUID is not zero is printed and probed for FAT.
GptEntry ==
    /\ pc = "gpt_entry"
    /\ gpt.i < gpt.header.partition_count
    /\ LET off == GptEntryOffset(gpt.header, gpt.i)
           len == GptEntryBytes(gpt.header)
           rd  == [off |-> off, len |-> len]
       IN  \E img1 \in Materialize(image, Touched(off, len)) :
             LET e  == GptPartitionEntry_decode(ReadExact(img1, off, len))
                 at == Lba512(e.starting_lba)
                 g1 == [gpt EXCEPT !.reads = Append(@, rd)]
             IN  IF ~ReadOk(off, len)
                 THEN /\ image' = img1
                      /\ reads' = Append(reads, rd)
                      /\ gpt' = g1
                      /\ Fail("Io")
                      /\ UNCHANGED <<checked, fp>>
                 ELSE IF ~UuidNonZero(e.partition_type)
                 THEN /\ image' = img1
                      /\ reads' = Append(reads, rd)
                      /\ gpt' = GptNext(g1)
                      /\ UNCHANGED <<checked, pc, result, error, fp>>
                 ELSE \E img \in Materialize(img1, Touched(at, BOOT_SECTOR_SIZE)) :
                        LET rT == FatBootSector_from_partition_image(img, at, TRUE)
                            rF == FatBootSector_from_partition_image(img, at, FALSE)
                        IN  \E c \in Builds(rT, rF) :
                              LET r  == IF c = "debug" THEN rT ELSE rF
                                  g2 == [g1 EXCEPT !.shown = Append(@, gpt.i),
                                                   !.probed = Append(@, [i |-> gpt.i, at |-> at,
                                                       outcome |-> IF r.kind = "err" THEN r.err ELSE r.kind])]
                              IN  /\ image' = img
                                  /\ checked' = c
                                  /\ reads' = reads \o <<rd, [off |-> at, len |-> BOOT_SECTOR_SIZE]>>
                                  /\ CASE r.kind = "err" /\ Recovered(r.err) ->
                                            /\ gpt' = GptNext(g2)
                                            /\ UNCHANGED <<pc, result, error, fp>>
                                       [] r.kind = "err" /\ ~Recovered(r.err) ->
                                            /\ gpt' = g2
                                            /\ Fail(r.err)
                                            /\ UNCHANGED fp
                                       [] r.kind = "panic" ->
                                            /\ gpt' = g2
                                            /\ Panic
                                            /\ UNCHANGED fp
                                       [] r.kind = "ok" ->
                                            /\ gpt' = g2
                                            /\ fp' = [offset |-> at, boot_sector |-> r,
                                                      fat_type |-> r.extra.type, fat_tables |-> <<>>]
                                            /\ pc' = "gpt_tables"
                                            /\ UNCHANGED <<result, error>>
    /\ UNCHANGED <<imageLen, content, stack, shown, hops, probes, dstack, chain, log, arg, ret>>

\* main.rs 210-215: Ok(fp) for a GPT entry; the FAT information is printed
\* and the loop goes on.
GptProbeDone ==
    /\ pc = "gpt_tables"
    /\ Len(fp.fat_tables) = fp.boot_sector.number_of_fats
    /\ log' = Append(log, [ev |-> "gpt_fat"])
    /\ fp' = <<>>
    /\ gpt' = GptNext(gpt)
    /\ pc' = "gpt_entry"
    /\ UNCHANGED <<image, imageLen, content, checked, stack, result, error, shown, hops, probes, reads,
                   dstack, chain, arg, ret>>

\* main.rs 227 and 110: every entry was read; print_gpt_partition_table and
\* the run return Ok.
GptReturn ==
    /\ pc = "gpt_entry"
    /\ gpt.i = gpt.header.partition_count
    /\ result' = "ok"
    /\ pc' = "done"
    /\ UNCHANGED <<image, imageLen, content, checked, stack, error, shown, hops, probes, reads, fatVars, arg, ret>>

-----------------------------------------------------------------------------
(* The program: `run` on an image *)

\* File sizes, in sectors: an empty file, or NumSectors sectors.
ImageLens == {0, NumSectors}

Init ==
    /\ imageLen \in ImageLens
    /\ content = SectorTable
    /\ image = [s \in 0..(imageLen - 1) |-> "?"]
    /\ checked = "?"
    /\ pc = "start"
    /\ stack = <<>>
    /\ result = "running"
    /\ error = "none"
    /\ shown = <<>>
    /\ hops = <<>>
    /\ probes = <<>>
    /\ reads = <<>>
    /\ fp = <<>>
    /\ dstack = <<>>
    /\ chain = <<>>
    /\ log = <<>>
    /\ gpt = <<>>
    /\ arg = <<>>
    /\ ret = <<>>

Next ==
    \/ RunReadMbr
    \/ DisplayEntry
    \/ DisplayProbe
    \/ FatTableCopy
    \/ FatRootDirectory
    \/ DirSkip
    \/ DirDescend
    \/ ChainStep
    \/ DirReturn
    \/ FollowSkip
    \/ FollowHop
    \/ FollowReturn
    \/ RunAfterMbr
    \/ GptHeaderRead
    \/ GptEntry
    \/ GptProbeDone
    \/ GptReturn

Spec == Init /\ [][Next]_vars

-----------------------------------------------------------------------------
(* The MBR/EBR walk: properties of Spec *)

\* The type, LBA start and sector count that the 16 bytes of partition-table
\* entry k of a sector of each kind hold, read off the bytes of the sector.
KindEntries ==
    [kind \in SectorKinds \cup {"?"} |->
        [k \in 0..(PARTITION_TABLE_ENTRIES - 1) |->
            LET b == PARTITION_TABLE_OFFSET + k * PARTITION_ENTRY_SIZE
            IN  [type         |-> Get(SectorTable[kind], b + 4),
                 lba_start    |-> LE32(SectorTable[kind], b + 8),
                 sector_count |-> LE32(SectorTable[kind], b + 12)]]]

\* The partition entries of the sector the image holds at the sector-aligned
\* offset off.  A sector no read has touched yet holds zeros here: the run
\* so far is the same for every content of it.
EntriesAt(off) == KindEntries[image[off \div BOOT_SECTOR_SIZE]]

\* The type of the entry is one of the extended types of the type table.
MarkedExtended(e) == e.type \in ExtendedCodes

\* The entry is not all zero in type, LBA start and sector count.
Listed(e) == e.type > 0 \/ e.lba_start > 0 \/ e.sector_count > 0

ExtendedOf(off) ==
    LET es == EntriesAt(off)
    IN  { k \in 0..(PARTITION_TABLE_ENTRIES - 1) : MarkedExtended(es[k]) }

\* The non-extended, non-empty entries of the boot sector at off.
LeavesOf(off) ==
    LET es == EntriesAt(off)
    IN  { k \in 0..(PARTITION_TABLE_ENTRIES - 1) : Listed(es[k]) /\ ~MarkedExtended(es[k]) }

FirstEbr(i) ==
    LET j == CHOOSE j \in 1..i : hops[j].depth = 1 /\ \A k \in (j + 1)..i : hops[k].depth > 1
    IN  hops[j].at

\* C2 as stated: in a chain MBR -> EBR1 -> EBR2 -> ..., every EBR after the
\* first is read at offset(EBR1) + lba_start * 512.
C2_FirstEbrRelative ==
    \A i \in 1..Len(hops) :
        hops[i].depth >= 2 => hops[i].at = FirstEbr(i) + hops[i].lba * 512

\* The EBR offsets of the chain that starts in the boot sector at off, each
\* link resolved against the sector that holds it; at most fuel links.
RECURSIVE ChainFrom(_, _)
ChainFrom(off, fuel) ==
    IF fuel = 0 \/ ~ReadOk(off, BOOT_SECTOR_SIZE) \/ ExtendedOf(off) = {}
    THEN <<>>
    ELSE LET k == CHOOSE k \in ExtendedOf(off) : TRUE
             next == off + EntriesAt(off)[k].lba_start * 512
         IN  <<next>> \o ChainFrom(next, fuel - 1)

\* The boot sectors of the image: the MBR, then the EBRs of its chain.
ChainSectors == <<0>> \o ChainFrom(0, imageLen)

\* The extended entries of the image form a linear chain that ends in a
\* sector with no extended entry: every sector of the chain is in the file
\* and holds at most one extended entry, whose LBA start is not 0.
LinearChain ==
    LET cs == ChainSectors
    IN  \A i \in 1..Len(cs) :
          /\ ReadOk(cs[i], BOOT_SECTOR_SIZE)
          /\ LET x == ExtendedOf(cs[i])
             IN  /\ Cardinality(x) <= 1
                 /\ \A k \in x : EntriesAt(cs[i])[k].lba_start > 0

\* The non-extended, non-empty entries of the sectors of the chain.
ChainLeaves ==
    UNION { { <<ChainSectors[i], k>> : k \in LeavesOf(ChainSectors[i]) } : i \in 1..Len(ChainSectors) }

\* The non-extended entries the walker visited.
LeavesShown == { <<shown[i].at, shown[i].idx>> : i \in { j \in 1..Len(shown) : ~shown[j].ext } }

\* The walk followed the whole chain and visited its leaves.
WholeChain ==
    /\ Len(hops) = Len(ChainSectors) - 1
    /\ \A i \in 1..Len(hops) : hops[i].at = ChainSectors[i + 1]
    /\ LeavesShown = ChainLeaves

C4_EbrSignatureChecked ==
    \A i \in 1..Len(hops) : hops[i].sig = BOOT_SECTOR_SIGNATURE

-----------------------------------------------------------------------------
(* The FAT probe of an MBR entry: properties of Spec *)

\* The step reports event ev in the log.
Logs(ev) == log' # log /\ log'[Len(log')].ev = ev

\* The run goes on after the step.
GoesOn == result' = "running" /\ pc' # "done"

\* The step ends the run with an I/O error.
EndsWithIo == result' = "err" /\ error' = "Io" /\ pc' = "done"

\* What a step that decodes the FAT boot sector of a probe does with the
\* outcome: a signature mismatch is recovered, an I/O error is returned.
ProbeOutcomeHandled ==
    probes' # probes =>
        LET o == probes'[Len(probes')].outcome
        IN  /\ o = "InvalidSignature" => GoesOn /\ Logs("not_fat")
            /\ o = "Io" => EndsWithIo

\* C6 (amended): of the failures of the FAT probe proper (boot sector and
\* FAT copies) only the signature mismatch is recovered, and an I/O error
\* or short read there ends the whole run with that error; a failure to
\* read the root directory or a subdirectory cluster is reported and the
\* traversal goes on with the next entry.
C6_ProbeFailures ==
    [][/\ ProbeOutcomeHandled
       /\ Logs("table_failed") => EndsWithIo
       /\ Logs("root_failed") => GoesOn
       /\ Logs("subdir_failed") => GoesOn]_vars

\* C6 witness: a run returned success although the boot sector of one
\* partition was not a FAT boot sector, and the read of a root directory or
\* of a subdirectory cluster failed.
C6_Witness ==
    /\ result = "ok"
    /\ \E i \in 1..Len(log) : log[i].ev = "not_fat"
    /\ \E i \in 1..Len(log) : log[i].ev \in {"root_failed", "subdir_failed"}

\* C6 as stated: every failure of the probe other than the signature
\* mismatch - boot sector, FAT copy, root directory, subdirectory cluster -
\* ends the whole run with an error.
C6_AllFailuresFatal ==
    [][/\ ProbeOutcomeHandled
       /\ Logs("table_failed") => EndsWithIo
       /\ Logs("root_failed") => EndsWithIo
       /\ Logs("subdir_failed") => EndsWithIo]_vars

-----------------------------------------------------------------------------
(* PartitionEntry::get_extended_boot_sector called on its own *)

\* No run of the program is in progress.
NoRun ==
    /\ checked = "?"
    /\ stack = <<>>
    /\ result = "running"
    /\ error = "none"
    /\ shown = <<>>
    /\ hops = <<>>
    /\ probes = <<>>
    /\ reads = <<>>
    /\ fp = <<>>
    /\ dstack = <<>>
    /\ chain = <<>>
    /\ log = <<>>
    /\ gpt = <<>>
    /\ ret = <<>>

\* Partition types, LBA starts and base offsets the call is made with.
ExtTypes == {0, 5, 15, 131, 133, 234, 238, 255}
ExtLbas == {0, 1, 2, 5}
ExtBases == {0, 512}

\* The partition entry the call is made on.
ExtEntry == PartitionEntry_new(PutEntry(0, arg.type, arg.lba, 1), PARTITION_TABLE_OFFSET)

InitExt ==
    /\ imageLen \in ImageLens
    /\ content = SectorTable
    /\ image = [s \in 0..(imageLen - 1) |-> "?"]
    /\ pc = "ext_call"
    /\ arg \in [type : ExtTypes, lba : ExtLbas, base : ExtBases]
    /\ NoRun

\* entry.get_extended_boot_sector(reader, base)
ExtCall ==
    /\ pc = "ext_call"
    /\ LET r0 == get_extended_boot_sector(image, ExtEntry, arg.base)
       IN  \E img \in Materialize(image, TouchedBy(r0.reads)) :
             LET r == get_extended_boot_sector(img, ExtEntry, arg.base)
             IN  /\ image' = img
                 /\ reads' = reads \o r.reads
                 /\ ret' = r
                 /\ pc' = "ext_done"
    /\ UNCHANGED <<imageLen, content, checked, stack, result, error, shown, hops, probes, fatVars, arg>>

NextExt == ExtCall

SpecExt == InitExt /\ [][NextExt]_vars

\* C5: get_extended_boot_sector fails with InvalidPartitionType when the
\* type of the entry is not an extended one (whatever lba_start is: the type
\* is checked first), with InvalidPartitionEntry when the type is extended
\* and lba_start is 0, and in both cases issues no seek and no read.
C5_ExtendedErrors ==
    pc = "ext_done" =>
        /\ arg.type \notin ExtendedCodes =>
               ~ret.ok /\ ret.err = "InvalidPartitionType" /\ reads = <<>>
        /\ (arg.type \in ExtendedCodes /\ arg.lba = 0) =>
               ~ret.ok /\ ret.err = "InvalidPartitionEntry" /\ reads = <<>>

\* C5 witness: the call was made on an entry that is not extended and whose
\* lba_start is 0, and failed with InvalidPartitionType.
C5_Witness ==
    /\ pc = "ext_done"
    /\ arg.type = 131
    /\ arg.lba = 0
    /\ ret.err = "InvalidPartitionType"
    /\ reads = <<>>

-----------------------------------------------------------------------------
(* FatBootSector::from_partition_image on the 512 bytes of one sector *)

\* The filesystem-type strings a boot sector may carry: zeros, "FAT12   ",
\* "FAT32   ", and one whose second byte (offset 0x37 of the sector) is 0x29.
FsStrings == {<<0, 0, 0, 0, 0, 0, 0, 0>>,
              <<70, 65, 84, 49, 50, 32, 32, 32>>,
              <<70, 65, 84, 51, 50, 32, 32, 32>>,
              <<70, 41, 84, 32, 32, 32, 32, 32>>}

\* The extended boot signatures a boot sector may carry.
ExtSignatures == {0, 40, 41}

\* The BIOS parameter blocks the decoder is run on.  The sector counts put
\* data_clusters on both sides of 4085 and of 65525.
BootInputs ==
    [bytes_per_sector : {0, 512},
     sectors_per_cluster : {0, 1, 2},
     number_of_fats : {1, 2},
     root_directory_entries : {0, 1, 16},
     sectors16 : {0, 4086, 4087, 65526, 65527},
     sectors32 : {3, 70000},
     sectors_per_fat16 : {0, 1},
     sectors_per_fat32 : {1, 2},
     fs : FsStrings,
     ext_signature : ExtSignatures]

\* The boot sector of input a: one reserved sector, the extended signature
\* at 0x26 (FAT16 layout, when the 16-bit sectors per FAT is in use) and at
\* 0x42 (FAT32 layout), a serial number behind each, and the
\* filesystem-type string in the field of either layout.
BootBytes(a) ==
    PutBpb(a.bytes_per_sector, a.sectors_per_cluster, 1, a.number_of_fats,
           a.root_directory_entries, a.sectors16, a.sectors_per_fat16, a.sectors32)
        @@ (IF a.sectors_per_fat16 = 0 THEN PutLE(36, 4, a.sectors_per_fat32)
            ELSE (38 :> a.ext_signature) @@ PutLE(39, 4, 4660))
        @@ PutBytes(54, a.fs) @@ (66 :> a.ext_signature) @@ PutLE(67, 4, 4660)
        @@ PutBytes(82, a.fs) @@ PutSignature

InitBoot ==
    /\ imageLen = 0
    /\ content = SectorTable
    /\ image = <<>>
    /\ pc = "boot_call"
    /\ arg \in BootInputs
    /\ NoRun

\* FatBootSector::from_partition_image once the 512 bytes are read.
BootDecode ==
    /\ pc = "boot_call"
    /\ LET rT == FatBootSector_decode(BootBytes(arg), TRUE)
           rF == FatBootSector_decode(BootBytes(arg), FALSE)
       IN  \E c \in Builds(rT, rF) :
             /\ checked' = c
             /\ ret' = IF c = "debug" THEN rT ELSE rF
    /\ pc' = "boot_done"
    /\ UNCHANGED <<image, imageLen, content, stack, result, error, shown, hops, probes, reads, fatVars, arg>>

NextBoot == BootDecode

SpecBoot == InitBoot /\ [][NextBoot]_vars

\* The decoder returned a boot sector.
BootDecoded == pc = "boot_done" /\ ret.kind = "ok"

\* The data_clusters the decoder computed is below c.
ClustersBelow(c) == WLess(ret.data_clusters, c)

\* C7: the FAT width the decoder chooses is a function of data_clusters
\* alone: below 4085 FAT12, from 4085 and below 65525 FAT16, from 65525
\* FAT32; a boot sector that differs only in the filesystem-type string gets
\* the same width.
C7_WidthByClusters ==
    BootDecoded =>
        /\ ClustersBelow(4085) => ret.extra.type = "Fat12"
        /\ (~ClustersBelow(4085) /\ ClustersBelow(65525)) => ret.extra.type = "Fat16"
        /\ ~ClustersBelow(65525) => ret.extra.type = "Fat32"
        /\ \A f \in FsStrings :
               LET other == FatBootSector_decode(BootBytes([arg EXCEPT !.fs = f]), checked = "debug")
               IN  other.kind = "ok" /\ other.extra.type = ret.extra.type

\* C7 witness: a boot sector with 4085 data clusters whose filesystem-type
\* string says FAT12 was decoded, the string was read, and the width is FAT16.
C7_Witness ==
    /\ BootDecoded
    /\ WInt(ret.data_clusters) = 4085
    /\ ret.extra.type = "Fat16"
    /\ ret.extra.file_system_type = Some(<<70, 65, 84, 49, 50, 32, 32, 32>>)

\* The sector count and the sectors per FAT the claim names: the 16-bit
\* field, or the 32-bit field when that is zero.
ClaimedTotal == IF arg.sectors16 # 0 THEN arg.sectors16 ELSE arg.sectors32
ClaimedPerFat == IF arg.sectors_per_fat16 # 0 THEN arg.sectors_per_fat16 ELSE arg.sectors_per_fat32

\* ceil(root_entries * 32 / bytes_per_sector)
ClaimedRootSectors ==
    (arg.root_directory_entries * 32 + arg.bytes_per_sector - 1) \div arg.bytes_per_sector

ClaimedDataSectors ==
    ClaimedTotal - 1 - arg.number_of_fats * ClaimedPerFat - ClaimedRootSectors

\* C8 as stated: data_sectors = total_sectors - reserved_sectors -
\* fat_count * sectors_per_fat - ceil(root_entries * 32 / bytes_per_sector),
\* the root-directory term rounded up, and data_clusters = data_sectors /
\* sectors_per_cluster, with the 16-bit fields replaced by the 32-bit ones
\* when zero (stated for the inputs whose claimed value is not negative).
C8_DataSectorsCeil ==
    (BootDecoded /\ ClaimedDataSectors >= 0) =>
        /\ ret.sectors_in_filesystem = ClaimedTotal
        /\ ret.sectors_per_fat = ClaimedPerFat
        /\ ret.data_sectors = Wide(ClaimedDataSectors)
        /\ ret.data_clusters = Wide(ClaimedDataSectors \div arg.sectors_per_cluster)

-----------------------------------------------------------------------------
(* The FAT table decoder on one table copy *)

\* 12-bit, 16-bit and 32-bit table values the tables are built from.
Vals12 == {0, 1, 291, 1110, 2048, 3840, 4088, 4095}
Vals16 == {0, 3, 4660, 65528, 65535}
Vals32 == {0, 3, 268435448, 268435459}

\* FAT12 packing of the 12-bit values a and b into three bytes:
\* byte0 = a & 0xFF, byte1 = (a >> 8) | ((b & 0xF) << 4), byte2 = b >> 4.
Pack12(a, b) == <<a % 256, (a \div 256) + (b % 16) * 16, b \div 16>>

\* The table copies the decoder is run on: the packed values, then zeros up
\* to size bytes.
TableInputs ==
    { [fat_type |-> "Fat12", vals |-> <<a, b>>, bytes |-> PutBytes(0, Pack12(a, b)), size |-> n] :
        a \in Vals12, b \in Vals12, n \in {3, 6} }
    \cup
    { [fat_type |-> "Fat16", vals |-> <<a, b>>, bytes |-> PutLE(0, 2, a) @@ PutLE(2, 2, b), size |-> n] :
        a \in Vals16, b \in Vals16, n \in {4, 6} }
    \cup
    { [fat_type |-> "Fat32", vals |-> <<a, b>>, bytes |-> PutLE(0, 4, a) @@ PutLE(4, 4, b), size |-> n] :
        a \in Vals32, b \in Vals32, n \in {0, 8, 12} }

InitTable ==
    /\ imageLen = 0
    /\ content = SectorTable
    /\ image = <<>>
    /\ pc = "table_call"
    /\ arg \in TableInputs
    /\ NoRun

\* fat.rs 86-120 on the bytes of one table copy.
TableDecode ==
    /\ pc = "table_call"
    /\ ret' = DecodeFatTable(arg.fat_type, arg.bytes, arg.size)
    /\ pc' = "table_done"
    /\ UNCHANGED <<image, imageLen, content, checked, stack, result, error, shown, hops, probes, reads,
                   fatVars, arg>>

NextTable == TableDecode

SpecTable == InitTable /\ [][NextTable]_vars

\* C9: FAT12 decoding inverts FAT12 packing: the three bytes that pack the
\* 12-bit values a and b decode to the consecutive entries a and b, every
\* entry being in 0..0xFFF (0x23 0x61 0x45 decode to 0x123, 0x456).
C9_Fat12RoundTrip ==
    (pc = "table_done" /\ arg.fat_type = "Fat12") =>
        /\ ~ret.panic
        /\ Len(ret.table) = 2 * (arg.size \div 3)
        /\ ret.table[1] = arg.vals[1]
        /\ ret.table[2] = arg.vals[2]
        /\ \A k \in 1..Len(ret.table) : ret.table[k] \in 0..4095

\* C9 witness: the bytes 0x23 0x61 0x45 were decoded to 0x123, 0x456.
C9_Witness ==
    /\ pc = "table_done"
    /\ arg.fat_type = "Fat12"
    /\ arg.bytes = PutBytes(0, <<35, 97, 69>>)
    /\ ret.table[1] = 291
    /\ ret.table[2] = 1110

\* C10 as stated: a FAT16 table decodes to one entry per 2 bytes, the
\* little-endian 16-bit values; decoding a FAT32 table completes and yields
\* table_size / 4 entries, the little-endian 32-bit values.
C10_TableEntries ==
    pc = "table_done" =>
        /\ arg.fat_type = "Fat16" =>
               /\ ~ret.panic
               /\ Len(ret.table) = arg.size \div 2
               /\ \A k \in 1..Len(ret.table) : ret.table[k] = LE16(arg.bytes, 2 * (k - 1))
        /\ arg.fat_type = "Fat32" =>
               /\ ~ret.panic
               /\ Len(ret.table) = arg.size \div 4
               /\ \A k \in 1..Len(ret.table) : ret.table[k] = LE32(arg.bytes, 4 * (k - 1))

-----------------------------------------------------------------------------
(* The GPT branch of `run`: properties of Spec *)

\* C13: print_gpt_partition_table is entered only when the type of the first
\* MBR partition entry (index 0) is 0xEE - never for an 0xEE in entries 1..3
\* or in an EBR - and the GPT header, the only read of 92 bytes the program
\* issues, is read at lba_start * 512 of that first entry.
C13_GptTrigger ==
    /\ gpt # <<>> =>
           /\ KindEntries[image[0]][0].type = 238
           /\ gpt.pos = KindEntries[image[0]][0].lba_start * 512
    /\ \A i \in 1..Len(reads) :
           reads[i].len = 92 => (gpt # <<>> /\ reads[i].off = gpt.pos)

\* C13 witness: the MBR is the standard protective MBR (first entry 0xEE,
\* LBA start 1) and the GPT header was read at byte offset 512.
C13_Witness ==
    /\ gpt # <<>>
    /\ KindEntries[image[0]][0].type = 238
    /\ KindEntries[image[0]][0].lba_start = 1
    /\ \E i \in 1..Len(reads) : reads[i] = [off |-> 512, len |-> 92]

-----------------------------------------------------------------------------
(* print_gpt_partition_table called on its own *)

\* The sectors of the images the call is made on: a GPT header or not in
\* sector 1, an entry array or not in sector 2, volumes behind.
GptHeaderSectors == {"gpt_hdr", "blank", "hdr_sig", "hdr_sig8", "hdr_rev", "hdr_size", "hdr_sig_rev",
                     "hdr_sig_size", "hdr_rev_size", "hdr_rev2", "hdr_256", "hdr_64", "hdr_far", "hdr_0"}
GptArraySectors == {"gpt_ents", "gpt_ents_far", "blank"}
GptVolumeSectors == {"blank", "nofat", "fat16", "fat_r1", "gpt_ents"}

GptImages ==
    { [s \in 0..(NumSectors - 1) |->
          IF s = 0 THEN "gpt" ELSE IF s = 1 THEN h ELSE IF s = 2 THEN a ELSE v[s]] :
      h \in GptHeaderSectors, a \in GptArraySectors, v \in [3..(NumSectors - 1) -> GptVolumeSectors] }

\* print_gpt_partition_table(reader, header_pos) is about to be called, with
\* header_pos at sector 1 or at the end of the file.
InitGpt ==
    /\ imageLen = NumSectors
    /\ content = SectorTable
    /\ image \in GptImages
    /\ pc = "gpt_header"
    /\ \E pos \in {BOOT_SECTOR_SIZE, NumSectors * BOOT_SECTOR_SIZE} :
           gpt = [pos |-> pos, header |-> <<>>, i |-> 0, reads |-> <<>>, shown |-> <<>>, probed |-> <<>>]
    /\ checked = "?"
    /\ stack = <<>>
    /\ result = "running"
    /\ error = "none"
    /\ shown = <<>>
    /\ hops = <<>>
    /\ probes = <<>>
    /\ reads = <<>>
    /\ fp = <<>>
    /\ dstack = <<>>
    /\ chain = <<>>
    /\ log = <<>>
    /\ arg = <<>>
    /\ ret = <<>>

NextGpt ==
    \/ GptHeaderRead
    \/ GptEntry
    \/ FatTableCopy
    \/ GptProbeDone
    \/ GptReturn

SpecGpt == InitGpt /\ [][NextGpt]_vars

\* The little-endian 32-bit value the image holds at offset off.
ImageLE32(off) ==
    ByteAt(image, off) + 256 * ByteAt(image, off + 1)
        + 65536 * ByteAt(image, off + 2) + 16777216 * ByteAt(image, off + 3)

\* The header the image holds at gpt.pos passes the checks of the claim.
HeaderInFile == gpt.pos + 92 <= ImageBytes
SignatureOk == \A k \in 0..7 : ByteAt(image, gpt.pos + k) = GPT_HEADER_SIGNATURE[k + 1]
RevisionOk == ImageLE32(gpt.pos + 8) >= 65536
SizeOk == ImageLE32(gpt.pos + 12) = 92

\* The call ended with error kind e.
GptFailedWith(e) == pc = "done" /\ result = "err" /\ error = e

\* C14: GPT header decoding checks the signature, then revision >=
\* 0x00010000, then header size = 92, and fails with the error kind of the
\* first check violated (three distinct kinds); when header decoding fails,
\* the header read is the only read: no entry of the array is read.
C14_HeaderChecks ==
    (pc # "gpt_header" /\ HeaderInFile) =>
        /\ ~SignatureOk => GptFailedWith("InvalidGptHeaderSignature")
        /\ (SignatureOk /\ ~RevisionOk) => GptFailedWith("InvalidGptHeaderRevision")
        /\ (SignatureOk /\ RevisionOk /\ ~SizeOk) => GptFailedWith("InvalidGptHeaderSize")
        /\ (SignatureOk /\ RevisionOk /\ SizeOk) => gpt.header # <<>>
        /\ gpt.header = <<>> =>
               /\ reads = <<[off |-> gpt.pos, len |-> 92]>>
               /\ gpt.reads = <<>>

\* C14 witness: a header whose signature is corrupted and whose revision is
\* too old as well failed with the signature error, after one read.
C14_Witness ==
    /\ GptFailedWith("InvalidGptHeaderSignature")
    /\ ~SignatureOk
    /\ ~RevisionOk
    /\ Len(reads) = 1

\* The entry array the header in the image declares.
DeclaredTable == ImageLE32(gpt.pos + 72) * 512
DeclaredCount == ImageLE32(gpt.pos + 80)
DeclaredEntrySize == ImageLE32(gpt.pos + 84)

\* The type GUID of the record at offset off is all zero.
ZeroType(off) == \A k \in 0..15 : ByteAt(image, off + k) = 0

\* The records read are displayed and probed for FAT exactly when their type
\* GUID is not zero; the last may be a record whose read failed.
GptDisplayRule ==
    /\ \A j \in 1..Len(gpt.reads) :
           (gpt.reads[j].off + gpt.reads[j].len <= ImageBytes) =>
               /\ (\E k \in 1..Len(gpt.shown) : gpt.shown[k] = j - 1) <=> ~ZeroType(gpt.reads[j].off)
               /\ (\E k \in 1..Len(gpt.probed) : gpt.probed[k].i = j - 1) <=> ~ZeroType(gpt.reads[j].off)
    /\ \A k \in 1..Len(gpt.shown) : gpt.shown[k] < Len(gpt.reads)
    /\ \A k \in 1..Len(gpt.probed) : gpt.probed[k].i < Len(gpt.reads)

\* C15 (amended): after a valid GPT header the entry records are read in
\* index order, record i at partition_table_lba * 512 + i *
\* partition_entry_size, 128 bytes each whatever partition_entry_size is; at
\* most partition_count records are read, exactly partition_count when the
\* call returns Ok (a failed read or a fatal error of a FAT probe ends it
\* earlier); a record whose type GUID is all zero is read and counted but
\* neither displayed nor probed for FAT.
C15_EntryReads ==
    (gpt # <<>> /\ gpt.header # <<>>) =>
        /\ \A j \in 1..Len(gpt.reads) :
               /\ gpt.reads[j].off = DeclaredTable + (j - 1) * DeclaredEntrySize
               /\ gpt.reads[j].len = 128
        /\ Len(gpt.reads) <= DeclaredCount
        /\ (pc = "done" /\ result = "ok") => Len(gpt.reads) = DeclaredCount
        /\ GptDisplayRule

\* C15 witness: the header declares 4 entries; the call returned Ok after 4
\* reads, the second and fourth records have a zero type GUID, the first and
\* third were displayed.
C15_Witness ==
    /\ gpt # <<>>
    /\ gpt.header # <<>>
    /\ pc = "done"
    /\ result = "ok"
    /\ DeclaredCount = 4
    /\ Len(gpt.reads) = 4
    /\ ZeroType(gpt.reads[2].off)
    /\ gpt.shown = <<0, 2>>

\* C15 as stated: once the call is over after a valid header, exactly
\* partition_count records were read, record i at partition_table_lba * 512
\* + i * partition_entry_size with partition_entry_size bytes read, and the
\* records with a zero type GUID are neither displayed nor probed.
C15_DeclaredSizeRead ==
    (gpt # <<>> /\ gpt.header # <<>> /\ pc = "done" /\ result # "panic") =>
        /\ Len(gpt.reads) = DeclaredCount
        /\ \A j \in 1..Len(gpt.reads) :
               /\ gpt.reads[j].off = DeclaredTable + (j - 1) * DeclaredEntrySize
               /\ gpt.reads[j].len = DeclaredEntrySize
        /\ GptDisplayRule


-----------------------------------------------------------------------------
(* `run` on an image that holds one primary FAT volume *)

\* The images: an MBR whose entry 0 is a partition at LBA 1, the boot sector
\* of a FAT volume in sector 1, its tables and directories behind.
VolBoots == {"fat16", "fat12", "fat_c48", "fat_t4", "fat32r", "fat16x2", "bigroot", "nofat"}
VolBodies == {"body", "body_loop", "body_zero", "body_thr", "body12", "body_t4", "body_x2", "body32",
              "body_self"}
VolTails == {"body", "blank"}

VolImages ==
    { [s \in 0..(NumSectors - 1) |->
          IF s = 0 THEN "leaf" ELSE IF s = 1 THEN v ELSE IF s = 2 THEN b ELSE t] :
      v \in VolBoots, b \in VolBodies, t \in VolTails }

InitVol ==
    /\ imageLen = NumSectors
    /\ content = SectorTable
    /\ image \in VolImages
    /\ checked = "?"
    /\ pc = "start"
    /\ stack = <<>>
    /\ result = "running"
    /\ error = "none"
    /\ shown = <<>>
    /\ hops = <<>>
    /\ probes = <<>>
    /\ reads = <<>>
    /\ fp = <<>>
    /\ dstack = <<>>
    /\ chain = <<>>
    /\ log = <<>>
    /\ gpt = <<>>
    /\ arg = <<>>
    /\ ret = <<>>

\* The steps of `run` on these images: the MBR holds no extended and no
\* protective entry.
NextVol ==
    \/ RunReadMbr
    \/ DisplayEntry
    \/ DisplayProbe
    \/ FatTableCopy
    \/ FatRootDirectory
    \/ DirSkip
    \/ DirDescend
    \/ ChainStep
    \/ DirReturn
    \/ FollowSkip
    \/ FollowReturn
    \/ RunAfterMbr

SpecVol == InitVol /\ [][NextVol]_vars

\* The offset the cluster c of the probed volume is claimed to be read at.
ClaimedClusterOffset(c) ==
    fp.offset + get_data_start_offset(fp.boot_sector) + (c - 2) * get_bytes_per_cluster(fp.boot_sector)

\* Entry c of table copy 0 exists.
InTable0(c) == fp.fat_tables # <<>> /\ c >= 0 /\ c < Len(fp.fat_tables[1])

\* The records of the cluster at off, each decoded from its own 32 bytes of
\* the image, in order.
RecordsAt(off) ==
    [j \in 1..(get_bytes_per_cluster(fp.boot_sector) \div FAT_DIRECTORY_ENTRY_SIZE) |->
        FatDirectoryEntry_from_data(
            ReadExact(image, off + (j - 1) * FAT_DIRECTORY_ENTRY_SIZE, FAT_DIRECTORY_ENTRY_SIZE),
            0, fp.fat_type)]

\* The step of the traversal for the current cluster does what is claimed.
StepAsClaimed ==
    LET c    == chain.cluster
        off  == ClaimedClusterOffset(c)
        size == get_bytes_per_cluster(fp.boot_sector)
    IN  /\ reads' = Append(reads, [off |-> off, len |-> size])
        /\ ReadOk(off, size) =>
               /\ InTable0(c)
               /\ LET next == fp.fat_tables[1][c + 1]
                      all  == chain.entries \o RecordsAt(off)
                  IN  IF EndOfChain(fp.fat_type, next)
                      THEN /\ pc' = "fat_dir"
                           /\ Len(dstack') = Len(dstack) + 1
                           /\ dstack'[Len(dstack')].entries = all
                      ELSE /\ pc' = "fat_chain"
                           /\ chain' = [cluster |-> next, entries |-> all, n |-> chain.n + 1]

\* C11 as stated: every step of the chain traversal, for the current cluster
\* c, reads one cluster (sectors_per_cluster x bytes_per_sector bytes) at
\* partition offset + data start + (c - 2) x cluster size, decodes all its
\* 32-byte records in order and takes entry c of table copy 0 as the next
\* cluster; it stops exactly when that value is 0, 1 or in the end-of-chain
\* range of the FAT width and otherwise goes on with that value.
C11_ChainStepAsClaimed == [][pc = "fat_chain" => StepAsClaimed]_vars

\* The same for the clusters of the data region (2 and up) that table copy 0
\* has an entry for, on a volume whose clusters hold whole records.
C11_InRangeOnly ==
    [][(/\ pc = "fat_chain"
        /\ chain.cluster >= 2
        /\ InTable0(chain.cluster)
        /\ get_bytes_per_cluster(fp.boot_sector) % FAT_DIRECTORY_ENTRY_SIZE = 0) => StepAsClaimed]_vars

\* The clusters of the chain that table copy 0 holds from cluster c on, up
\* to the one whose table entry is a stop value, to one that has no entry,
\* or to fuel clusters.
RECURSIVE ClaimedChain(_, _)
ClaimedChain(c, fuel) ==
    IF fuel = 0 THEN <<>>
    ELSE IF ~InTable0(c) \/ EndOfChain(fp.fat_type, fp.fat_tables[1][c + 1]) THEN <<c>>
    ELSE <<c>> \o ClaimedChain(fp.fat_tables[1][c + 1], fuel - 1)

\* The chain from c reaches a stop value after at most fuel clusters.
RECURSIVE ReachesStop(_, _)
ReachesStop(c, fuel) ==
    /\ fuel > 0
    /\ InTable0(c)
    /\ \/ EndOfChain(fp.fat_type, fp.fat_tables[1][c + 1])
       \/ ReachesStop(fp.fat_tables[1][c + 1], fuel - 1)

\* The chain from c comes back to one of its clusters without a stop value.
Cyclic(c) ==
    LET cs == ClaimedChain(c, MaxChain + 1)
    IN  /\ ~ReachesStop(c, MaxChain + 1)
        /\ \A j \in 1..Len(cs) : InTable0(cs[j])
        /\ \E i, j \in 1..Len(cs) : i < j /\ cs[i] = cs[j]

\* The reads of the clusters cs at their claimed offsets all succeed.
ClusterReadsOk(cs) ==
    \A j \in 1..Len(cs) : ReadOk(ClaimedClusterOffset(cs[j]), get_bytes_per_cluster(fp.boot_sector))

\* The records of the clusters cs, in chain order.
RECURSIVE ChainRecords(_)
ChainRecords(cs) ==
    IF cs = <<>> THEN <<>> ELSE RecordsAt(ClaimedClusterOffset(cs[1])) \o ChainRecords(Tail(cs))

\* The call of get_directory_at_cluster in progress, started at cluster
\* start, goes as claimed in its next step.
CallAsClaimed(start) ==
    LET cs == ClaimedChain(start, MaxChain)
        k  == Len(cs)
    IN  /\ (ReachesStop(start, MaxChain) /\ ClusterReadsOk(cs)) =>
               /\ Len(reads') = Len(reads) + 1
               /\ IF chain.n + 1 = k
                  THEN /\ pc' = "fat_dir"
                       /\ Len(dstack') = Len(dstack) + 1
                       /\ Len(dstack'[Len(dstack')].entries)
                              = k * (get_bytes_per_cluster(fp.boot_sector) \div FAT_DIRECTORY_ENTRY_SIZE)
                       /\ dstack'[Len(dstack')].entries = ChainRecords(cs)
                  ELSE pc' = "fat_chain"
        /\ (Cyclic(start) /\ ClusterReadsOk(ClaimedChain(start, MaxChain + 1))) => pc' = "fat_chain"

\* C12 as stated: when the chain of table copy 0 from the start cluster
\* reaches a stop value after k clusters and the reads succeed, the call
\* returns after reading exactly k clusters, with k x (cluster size / 32)
\* entries in chain order, and not before; when the chain runs into a cycle
\* without a stop value and the reads succeed, no step of the call returns.
C12_ChainLengthAsClaimed == [][pc = "fat_chain" => CallAsClaimed(DCur.first_cluster)]_vars

\* The same for the start clusters of the data region (2 and up), on a
\* volume whose clusters hold whole records.
C12_InRangeOnly ==
    [][(/\ pc = "fat_chain"
        /\ DCur.first_cluster >= 2
        /\ get_bytes_per_cluster(fp.boot_sector) % FAT_DIRECTORY_ENTRY_SIZE = 0)
           => CallAsClaimed(DCur.first_cluster)]_vars

-----------------------------------------------------------------------------
(* The FAT tables and the root directory of the probed volume: properties
   of SpecVol *)

\* The bytes of one table copy, and the offset of copy 0 in the image, by
\* the fields of the decoded boot sector.
TableBytes == fp.boot_sector.sectors_per_fat * fp.boot_sector.bytes_per_sector
TableBase == fp.offset + fp.boot_sector.reserved_sectors * fp.boot_sector.bytes_per_sector

\* The entries that the image holds in table copy i.
ImageCopy(i) ==
    DecodeFatTable(fp.fat_type, ReadExact(image, TableBase + i * TableBytes, TableBytes), TableBytes).table

\* The clusters of the chain that table t holds from cluster c on.
RECURSIVE ChainOf(_, _, _)
ChainOf(t, c, fuel) ==
    IF fuel = 0 THEN <<>>
    ELSE IF c < 0 \/ c >= Len(t) \/ EndOfChain(fp.fat_type, t[c + 1]) THEN <<c>>
    ELSE <<c>> \o ChainOf(t, t[c + 1], fuel - 1)

\* The directory entry that the frame d of the directory walk was read for.
FrameEntry(d) == dstack[d - 1].entries[dstack[d - 1].k - 1]

\* The cluster whose read was the last one.
LastCluster ==
    CHOOSE c \in 2..(2 + NumSectors * BOOT_SECTOR_SIZE) :
        ClaimedClusterOffset(c) = reads[Len(reads)].off

RootBase ==
    fp.offset + (fp.boot_sector.reserved_sectors
                     + fp.boot_sector.number_of_fats * fp.boot_sector.sectors_per_fat)
                    * fp.boot_sector.bytes_per_sector
RootRecordAt(j) == RootBase + FAT_DIRECTORY_ENTRY_SIZE * j

\* Every read of a root-directory record succeeds.
RootReadsOk ==
    \A j \in 0..(fp.boot_sector.root_directory_entries - 1) : ReadOk(RootRecordAt(j), FAT_DIRECTORY_ENTRY_SIZE)

\* get_root_directory_entries, called in this step, does what is claimed.
RootAsClaimed ==
    LET n == fp.boot_sector.root_directory_entries
    IN  IF RootReadsOk
        THEN /\ reads' = reads \o [j \in 1..n |-> [off |-> RootRecordAt(j - 1), len |-> FAT_DIRECTORY_ENTRY_SIZE]]
             /\ pc' = "fat_dir"
             /\ Len(dstack') = 1
             /\ Len(dstack'[1].entries) = n
             /\ \A j \in 1..n :
                    dstack'[1].entries[j] =
                        FatDirectoryEntry_from_data(
                            ReadExact(image, RootRecordAt(j - 1), FAT_DIRECTORY_ENTRY_SIZE), 0, fp.fat_type)
        ELSE /\ dstack' = <<>>
             /\ pc' # "fat_dir"
             /\ log'[Len(log')] = [ev |-> "root_failed"]
             /\ \A i \in 1..Len(log') : log'[i].ev # "dir"

\* C17: get_root_directory_entries returns exactly root_directory_entries
\* records, record j decoded from the 32 bytes at partition offset +
\* (reserved_sectors + number_of_fats x sectors_per_fat) x bytes_per_sector
\* + 32 x j, in on-disk order; when one of these reads fails it returns an
\* error and no record: nothing of the root directory is listed.
C17_RootDirectory ==
    [][(/\ pc = "fat_tables"
        /\ Len(fp.fat_tables) = fp.boot_sector.number_of_fats) => RootAsClaimed]_vars

\* The 4 records of a root directory have been returned, "SUB" first.
C17_Witness ==
    /\ pc = "fat_dir"
    /\ Len(dstack) = 1
    /\ dstack[1].k = 1
    /\ Len(dstack[1].entries) = 4
    /\ dstack[1].entries[1].filename[1] = 83
    /\ reads[Len(reads)] = [off |-> RootRecordAt(3), len |-> FAT_DIRECTORY_ENTRY_SIZE]

-----------------------------------------------------------------------------
(* The directory listing: properties of SpecVol *)

\* A record before record j of entries has the first filename byte 0x00.
AfterZeroRecord(entries, j) == \E i \in 1..(j - 1) : entries[i].filename[1] = 0

\* C19 as stated: a record whose first filename byte is 0x00 ends the
\* listing of its directory (root region or cluster chain): no record after
\* it is printed as an entry of the directory, and none is descended into.
C19_ZeroEndsListing ==
    /\ (pc = "fat_dir" /\ DTop.k = 1 /\ log[Len(log)].ev = "dir") =>
           \A j \in DOMAIN log[Len(log)].names : ~AfterZeroRecord(DTop.entries, j)
    /\ pc = "fat_chain" => ~AfterZeroRecord(DTop.entries, DTop.k)

-----------------------------------------------------------------------------
(* FatDirectoryEntry::is_valid and get_filename on one directory record *)

\* First filename bytes, the seven bytes behind, and extensions of the
\* records the two functions are called on.
NameFirsts == {0, 5, 229, 65, 32, 46}
NameRests == {<<32, 32, 32, 32, 32, 32, 32>>,
              <<66, 67, 32, 32, 32, 32, 32>>,
              <<229, 5, 32, 66, 32, 32, 32>>,
              <<0, 66, 0, 0, 0, 0, 0>>,
              <<66, 67, 68, 69, 70, 71, 72>>}
NameExts == {<<0, 0, 0>>, <<32, 32, 32>>, <<84, 88, 84>>, <<0, 88, 32>>, <<84, 0, 32>>}
NameAttributes == {16, 32}

InitName ==
    /\ imageLen = 0
    /\ content = SectorTable
    /\ image = <<>>
    /\ pc = "name_call"
    /\ \E f \in NameFirsts, r \in NameRests, x \in NameExts, a \in NameAttributes :
           arg = [bytes |-> PutDirEntry(0, <<f>> \o r, x, a, 2)]
    /\ NoRun

\* is_valid() and get_filename() on the record decoded from the 32 bytes.
NameCall ==
    /\ pc = "name_call"
    /\ LET e == FatDirectoryEntry_from_data(arg.bytes, 0, "Fat16")
       IN  ret' = [valid |-> is_valid(e), name |-> get_filename(e)]
    /\ pc' = "name_done"
    /\ UNCHANGED <<image, imageLen, content, checked, stack, result, error, shown, hops, probes, reads,
                   fatVars, arg>>

NextName == NameCall

SpecName == InitName /\ [][NextName]_vars

\* The decoding of the seven filename bytes behind the first one, and of
\* the extension with its dot, trailing spaces trimmed.
RestShown == TrimEnd([i \in 1..7 |-> Cp437(Get(arg.bytes, i))])
ExtShown ==
    LET ext == TrimEnd([i \in 1..3 |-> Cp437(Get(arg.bytes, 7 + i))])
    IN  IF ext = <<>> THEN <<>> ELSE <<46>> \o ext

\* C18: a directory entry is valid iff its first filename byte and its
\* first extension byte are both non-zero; a first filename byte of 0x00
\* gives an invalid entry without display name; a first byte of 0xE5 gives
\* a display name that starts with '?', a first byte of 0x05 one that starts
\* with the decoding of the byte 0xE5, and in both the seven bytes behind
\* are shown as they are.
C18_NameRules ==
    pc = "name_done" =>
        /\ ret.valid <=> (Get(arg.bytes, 0) # 0 /\ Get(arg.bytes, 8) # 0)
        /\ Get(arg.bytes, 0) = 0 => (~ret.valid /\ ~ret.name.some)
        /\ Get(arg.bytes, 0) # 0 => ret.name.some
        /\ Get(arg.bytes, 0) = 229 => ret.name.v = <<63>> \o RestShown \o ExtShown
        /\ Get(arg.bytes, 0) = 5 => ret.name.v = <<963>> \o RestShown \o ExtShown

\* The name of a valid entry whose filename bytes are 05 E5 05 20 42 20 20 20
\* has been computed: it starts with the decoding of 0xE5.
C18_Witness ==
    /\ pc = "name_done"
    /\ Get(arg.bytes, 0) = 5
    /\ Get(arg.bytes, 1) = 229
    /\ ret.valid
    /\ ret.name.some
    /\ ret.name.v[1] = 963
    /\ ret.name.v[2] = 963
    /\ Len(ret.name.v) = 9

-----------------------------------------------------------------------------
(* The optional fields of the extended BIOS parameter block: properties of
   SpecBoot *)

\* The extended boot signature of the boot sector in the layout of the
\* width it was classified as: the byte before the serial number, 0x26 in
\* the FAT16 layout and 0x42 in the FAT32 layout.
LayoutSignature ==
    IF ret.extra.type = "Fat16" THEN Get(BootBytes(arg), 38) ELSE Get(BootBytes(arg), 66)

\* The sentinel values of the extended boot signature.
Recognized(sig) == sig \in {40, 41}

\* C20 as stated: for a volume classified FAT16 or FAT32 the serial number,
\* the volume label and the filesystem-type string are populated when the
\* extended boot signature is a recognized sentinel value and all absent for
\* every other value; for a volume classified FAT12 none of them exists.
C20_FieldsGated ==
    BootDecoded =>
        /\ ret.extra.type = "Fat12" => DOMAIN ret.extra = {"type"}
        /\ ret.extra.type \in {"Fat16", "Fat32"} =>
               IF Recognized(LayoutSignature)
               THEN /\ ret.extra.serial_number.some
                    /\ ret.extra.volume_label.some
                    /\ ret.extra.file_system_type.some
               ELSE /\ ~ret.extra.serial_number.some
                    /\ ~ret.extra.volume_label.some
                    /\ ~ret.extra.file_system_type.some

\* What the decoder does with the byte it takes as the extended signature:
\* the serial number for 0x28 and 0x29, the label and the filesystem-type
\* string for 0x29 alone; in the FAT16 layout that byte is the one at 0x26.
C20_AsDecoded ==
    BootDecoded =>
        /\ ret.extra.type = "Fat12" => DOMAIN ret.extra = {"type"}
        /\ ret.extra.type \in {"Fat16", "Fat32"} =>
               /\ ret.extra.serial_number.some <=> Recognized(ret.extra.extended_signature)
               /\ ret.extra.volume_label.some <=> ret.extra.extended_signature = 41
               /\ ret.extra.file_system_type.some <=> ret.extra.extended_signature = 41
        /\ ret.extra.type = "Fat16" => ret.extra.extended_signature = LayoutSignature

-----------------------------------------------------------------------------
(* read_mixed_endian_uuid on the three GUIDs the GPT decoder reads *)

\* The 16 stored bytes the conversion is run on: all zero, sixteen different
\* bytes, and every single byte set in turn to 1 and to 0xFF.
GuidInputs ==
    {[k \in 1..16 |-> 0], [k \in 1..16 |-> 16 * k - 1]}
        \cup {[k \in 1..16 |-> IF k = i THEN v ELSE 0] : i \in 1..16, v \in {1, 255}}

\* The GUIDs decoded: the disk GUID of a header, the type GUID and the
\* unique GUID of a partition entry.
GuidPlaces == {"disk_guid", "partition_type", "unique_partition_guid"}

InitGuid ==
    /\ imageLen = 0
    /\ content = SectorTable
    /\ image = <<>>
    /\ pc = "guid_call"
    /\ arg \in [bytes : GuidInputs, place : GuidPlaces]
    /\ NoRun

\* GptHeader::new on a header that holds the bytes as its disk GUID, or
\* GptPartitionEntry::new on an entry that holds them as one of its GUIDs.
GuidCall ==
    /\ pc = "guid_call"
    /\ ret' = CASE arg.place = "disk_guid" ->
                       GptHeader_decode(PutGptHeader(GPT_HEADER_SIGNATURE, GPT_REVISION_1_0,
                                                     GPT_HEADER_1_0_SIZE, 2, 1, 128)
                                            @@ PutBytes(56, arg.bytes)).header.disk_guid
                 [] arg.place = "partition_type" ->
                       GptPartitionEntry_decode(PutBytes(0, arg.bytes)).partition_type
                 [] OTHER ->
                       GptPartitionEntry_decode(PutBytes(16, arg.bytes)).unique_partition_guid
    /\ pc' = "guid_done"
    /\ UNCHANGED <<image, imageLen, content, checked, stack, result, error, shown, hops, probes, reads,
                   fatVars, arg>>

NextGuid == GuidCall

SpecGuid == InitGuid /\ [][NextGuid]_vars

\* The 16-bit halves of the first field and the second and third field of a
\* GUID held as its 16 bytes in canonical (textual) order.
GuidField1High(uuid) == uuid[1] * 256 + uuid[2]
GuidField1Low(uuid) == uuid[3] * 256 + uuid[4]
GuidField2(uuid) == uuid[5] * 256 + uuid[6]
GuidField3(uuid) == uuid[7] * 256 + uuid[8]

\* The stored bytes b0..b15 of the call, as a buffer.
Stored == PutBytes(0, arg.bytes)

\* C21: the conversion maps the stored bytes b0..b15 to the GUID whose first
\* field is the little-endian 32-bit value of b0..b3, whose second field is
\* the little-endian 16-bit value of b4..b5, whose third field is the
\* little-endian 16-bit value of b6..b7 and whose last eight bytes are
\* b8..b15 in stored order; the disk GUID, the partition-type GUID and the
\* unique partition GUID are all converted so, and all-zero bytes give the
\* all-zero GUID.
C21_MixedEndianGuid ==
    pc = "guid_done" =>
        /\ Len(ret) = 16
        /\ GuidField1High(ret) = LE16(Stored, 2)
        /\ GuidField1Low(ret) = LE16(Stored, 0)
        /\ GuidField2(ret) = LE16(Stored, 4)
        /\ GuidField3(ret) = LE16(Stored, 6)
        /\ \A k \in 9..16 : ret[k] = arg.bytes[k]
        /\ (\A k \in 1..16 : arg.bytes[k] = 0) => ~UuidNonZero(ret)

\* The unique GUID of an entry whose sixteen stored bytes all differ has
\* been converted: the first field is read backwards, the last eight bytes
\* are kept.
C21_Witness ==
    /\ pc = "guid_done"
    /\ arg.place = "unique_partition_guid"
    /\ arg.bytes[1] = 15
    /\ arg.bytes[4] = 63
    /\ ret[1] = 63
    /\ ret[4] = 15
    /\ ret[9] = 143
    /\ ret[16] = 255

-----------------------------------------------------------------------------
(* PartitionEntry::new on the four entries of one partition table *)

\* The status bytes, CHS triples, LBA starts and sector counts of the entry
\* the decoder is run on; the type byte takes every value.
EntryStatuses == {0, 128}
EntryChs == {<<0, 0, 0>>, <<254, 255, 255>>, <<1, 65, 2>>, <<32, 33, 0>>, <<3, 192, 129>>}
EntryLbas == {0, 2048, 2147483647}
EntryCounts == {0, 1024}

\* The partition table that holds the entry in slot arg.slot and zeroes in
\* the three other slots.
EntryTable ==
    LET b == PARTITION_TABLE_OFFSET + arg.slot * PARTITION_ENTRY_SIZE
    IN  (b :> arg.status) @@ PutBytes(b + 1, arg.chs_start) @@ PutBytes(b + 5, arg.chs_end)
            @@ PutEntry(arg.slot, arg.type, arg.lba, arg.count) @@ PutSignature

InitEntry ==
    /\ imageLen = 0
    /\ content = SectorTable
    /\ image = <<>>
    /\ pc = "entry_call"
    /\ \E chs \in EntryChs :
           arg \in [slot : {0, 3}, status : EntryStatuses, type : 0..255, chs_start : {chs},
                    chs_end : {chs, <<254, 255, 255>>}, lba : EntryLbas, count : EntryCounts]
    /\ NoRun

\* The four PartitionEntry::new calls of BootSector::from_disk_image.
EntryCall ==
    /\ pc = "entry_call"
    /\ ret' = [k \in 0..(PARTITION_TABLE_ENTRIES - 1) |->
                  PartitionEntry_new(EntryTable, PARTITION_TABLE_OFFSET + k * PARTITION_ENTRY_SIZE)]
    /\ pc' = "entry_done"
    /\ UNCHANGED <<image, imageLen, content, checked, stack, result, error, shown, hops, probes, reads,
                   fatVars, arg>>

NextEntry == EntryCall

SpecEntry == InitEntry /\ [][NextEntry]_vars

\* b & mask for a byte b and the masks 0x3F and 0xC0, bit by bit.
BitOf(b, i) == (b \div (2 ^ i)) % 2
And3F(b) == BitOf(b, 0) + 2 * BitOf(b, 1) + 4 * BitOf(b, 2) + 8 * BitOf(b, 3) + 16 * BitOf(b, 4) + 32 * BitOf(b, 5)
AndC0(b) == 64 * BitOf(b, 6) + 128 * BitOf(b, 7)

\* A CHS position decoded from the triple t as the claim states it.
ChsAsClaimed(chs, t) ==
    /\ chs.head = t[1]
    /\ chs.sector = And3F(t[2])
    /\ chs.sector \in 0..63
    /\ chs.cylinder = AndC0(t[2]) * 4 + t[3]
    /\ chs.cylinder \in 0..1023

\* The entries of ret that the run takes as non-empty.
NonEmptyEntries == {k \in 0..(PARTITION_TABLE_ENTRIES - 1) : NonEmpty(ret[k])}

\* C22: decoding a partition entry gives, for every 16 bytes, type = byte 4,
\* lba_start = the little-endian value of bytes 8..11, sector_count = the
\* little-endian value of bytes 12..15, and for each CHS triple head = byte0,
\* sector = byte1 & 0x3F within 0..63 and cylinder = ((byte1 & 0xC0) << 2) |
\* byte2 within 0..1023; a table with one entry of type 0x83, LBA start 2048
\* and sector count 1024 and three zeroed entries gives exactly one non-empty
\* entry, with lba_start 2048 and not classified as extended.
C22_EntryDecode ==
    pc = "entry_done" =>
        LET e == ret[arg.slot]
        IN  /\ DOMAIN ret = 0..3
            /\ e.partition_type.code = arg.type
            /\ e.lba_start = arg.lba
            /\ e.sector_count = arg.count
            /\ ChsAsClaimed(e.chs_start, arg.chs_start)
            /\ ChsAsClaimed(e.chs_end, arg.chs_end)
            /\ (arg.type = 131 /\ arg.lba = 2048 /\ arg.count = 1024) =>
                   /\ NonEmptyEntries = {arg.slot}
                   /\ e.lba_start = 2048
                   /\ ~is_extended(e)

\* The table with the entry of type 0x83, LBA start 2048 and sector count
\* 1024 in the first slot has been decoded, its CHS start being 1, 0x41, 2.
C22_Witness ==
    /\ pc = "entry_done"
    /\ arg.slot = 0
    /\ arg.type = 131
    /\ arg.lba = 2048
    /\ arg.count = 1024
    /\ arg.chs_start = <<1, 65, 2>>
    /\ ret[0].chs_start = [cylinder |-> 258, head |-> 1, sector |-> 1]
    /\ ret[0].lba_start = 2048
    /\ ~NonEmpty(ret[1])

\* C23: the partition-type table has exactly 256 entries and entry i has
\* code i for every i in 0..255, so that the type of a decoded entry is the
\* table entry of exactly the type byte; an entry is classified extended if
\* and only if its code is in the list of extended codes.
C23_TypeTable ==
    /\ Len(MBR_PARTITION_TYPES_TABLE) = 256
    /\ \A i \in 0..255 : MBR_PARTITION_TYPES_TABLE[i + 1].code = i
    /\ pc = "entry_done" =>
           /\ ret[arg.slot].partition_type = MBR_PARTITION_TYPES_TABLE[arg.type + 1]
           /\ ret[arg.slot].partition_type.code = arg.type
           /\ is_extended(ret[arg.slot]) <=> arg.type \in ExtendedCodes

\* An entry of type 0xEA, the last extended code of the table, has been
\* decoded and classified extended, and one of type 0xEB next to it has not.
C23_Witness ==
    /\ pc = "entry_done"
    /\ arg.type = 234
    /\ is_extended(ret[arg.slot])
    /\ ~MBR_PARTITION_TYPES_TABLE[236].is_extended

-----------------------------------------------------------------------------
(* Termination of the MBR/EBR traversal: properties of Spec *)

\* Every hop made so far read at an offset strictly greater than the offset
\* of the sector that holds the extended entry.
HopsAscend == \A k \in 1..Len(hops) : hops[k].at > hops[k].from

\* The sectors of the chain being walked lie at strictly ascending offsets
\* inside the file, so that no offset occurs twice along the chain.
ChainAscends ==
    /\ \A k \in 1..Len(stack) : stack[k].start_pos + BOOT_SECTOR_SIZE <= ImageBytes
    /\ \A k \in 1..(Len(stack) - 1) : stack[k].start_pos < stack[k + 1].start_pos
    /\ Len(stack) <= imageLen

\* How far the call of print_mbr_partition_table in frame k has come: 0..3
\* for the entry its first loop is at, 4..8 for the entry its second loop is
\* at (8: about to return); 9 for a frame that is not on the stack.
WalkDigit(k) ==
    IF k > Len(stack) THEN 9
    ELSE IF k < Len(stack) \/ pc = "follow" THEN PARTITION_TABLE_ENTRIES + stack[k].i
    ELSE stack[k].i

\* The progress of the whole traversal: the digits of the frames, outermost
\* first, as one decimal number of imageLen digits.
RECURSIVE WalkRankFrom(_)
WalkRankFrom(k) == IF k > imageLen THEN 0 ELSE WalkDigit(k) * 10 ^ (imageLen - k) + WalkRankFrom(k + 1)
WalkRank == WalkRankFrom(1)

\* Every step of the traversal after the read of the MBR moves it forward.
WalkAdvances == (pc # "start" /\ stack' # stack) => WalkRank' > WalkRank

-----------------------------------------------------------------------------
(* The offset of the FAT probe: properties of Spec *)

\* C25 as stated: for every non-extended partition entry with lba_start > 0
\* that is probed for FAT, the probe reads the FAT boot sector at the
\* absolute byte start of the partition, P + lba_start x 512, where P is the
\* offset of the boot sector that contains the entry (0 for the MBR, more
\* than 0 for an entry found in an EBR).
C25_ProbeAtPartitionStart ==
    \A k \in 1..Len(probes) :
        /\ probes[k].lba > 0
        /\ probes[k].at = probes[k].from + probes[k].lba * 512
        /\ \E j \in 1..Len(reads) : reads[j] = [off |-> probes[k].at, len |-> BOOT_SECTOR_SIZE]

\* What the probes do: every one reads at lba_start x 512 from the start of
\* the file, which is the partition's start for the entries of the MBR.
C25_FromFileStart ==
    \A k \in 1..Len(probes) :
        /\ probes[k].lba > 0
        /\ probes[k].at = probes[k].lba * 512
        /\ probes[k].from = 0 => probes[k].at = probes[k].from + probes[k].lba * 512
        /\ \E j \in 1..Len(reads) : reads[j] = [off |-> probes[k].at, len |-> BOOT_SECTOR_SIZE]

-----------------------------------------------------------------------------
(* The FAT12 table decoder on table copies of any size *)

\* Sizes sectors_per_fat x bytes_per_sector of a table copy: whole 3-byte
\* groups (0, 3, 6, 1536) and sizes that end inside a group.
Table12Sizes == {0, 3, 4, 5, 6, 512, 1024, 1536}

\* The FAT12 table copies the decoder is run on: the packed values, then
\* zeros up to size bytes.
Table12Inputs ==
    { [fat_type |-> "Fat12", vals |-> <<a, b>>, bytes |-> PutBytes(0, Pack12(a, b)), size |-> n] :
        a \in Vals12, b \in Vals12, n \in Table12Sizes }

InitTable12 ==
    /\ imageLen = 0
    /\ content = SectorTable
    /\ image = <<>>
    /\ pc = "table_call"
    /\ arg \in Table12Inputs
    /\ NoRun

SpecTable12 == InitTable12 /\ [][NextTable]_vars

\* The two entries of the complete 3-byte group g (from 0) of the table.
GroupEntries(g) ==
    <<Get(arg.bytes, 3 * g) + 256 * (Get(arg.bytes, 3 * g + 1) % 16),
      (Get(arg.bytes, 3 * g + 1) \div 16) + 16 * Get(arg.bytes, 3 * g + 2)>>

\* The decode has yielded the entries of all complete 3-byte groups.
CompleteGroupsDecoded ==
    /\ Len(ret.table) >= 2 * (arg.size \div 3)
    /\ \A g \in 0..((arg.size \div 3) - 1) :
           <<ret.table[2 * g + 1], ret.table[2 * g + 2]>> = GroupEntries(g)

\* C26 as stated: FAT12 table decoding never reads a byte index at or beyond
\* the length of the table buffer; for every table size, the sizes that are
\* not a multiple of 3 included, decoding completes and yields the entries of
\* all complete 3-byte groups.
C26_Fat12InBounds ==
    pc = "table_done" => (~ret.panic /\ CompleteGroupsDecoded)

\* What the decoder does: a table whose size is a multiple of 3 decodes to
\* the entries of its groups; on every other size the last iteration indexes
\* beyond the buffer and the process aborts.
C26_WholeGroupsOnly ==
    pc = "table_done" =>
        IF arg.size % 3 = 0
        THEN ~ret.panic /\ CompleteGroupsDecoded /\ Len(ret.table) = 2 * (arg.size \div 3)
        ELSE ret.panic

-----------------------------------------------------------------------------
(* The cluster numbers get_directory_at_cluster works on: properties of
   SpecVol *)

\* C27 as stated: every cluster number that get_directory_at_cluster uses to
\* compute a cluster offset or to index the FAT is at least 2 and less than
\* the number of entries of table copy 0, and table copy 0 exists; a start
\* cluster of 0 or 1, a start or link value at or beyond the table length and
\* a volume with number_of_fats = 0 end in an error return, never in an
\* access outside the table or an underflow of cluster - 2.
C27_ClustersInRange ==
    /\ pc = "fat_chain" =>
           /\ chain.cluster >= 2
           /\ fp.fat_tables # <<>>
           /\ chain.cluster < Len(fp.fat_tables[1])
    /\ result # "panic"

\* The iterations made on a cluster of at least 2 that has an entry in table
\* copy 0, on a volume whose clusters hold whole records, do not abort.
C27_InRangeNoAbort ==
    [][(/\ pc = "fat_chain"
        /\ chain.cluster >= 2
        /\ fp.fat_tables # <<>>
        /\ chain.cluster < Len(fp.fat_tables[1])
        /\ get_bytes_per_cluster(fp.boot_sector) % FAT_DIRECTORY_ENTRY_SIZE = 0)
          => result' # "panic"]_vars

-----------------------------------------------------------------------------
(* FatBootSector::from_partition_image on boot sectors whose fields are zero
   or exceed the volume *)

\* BIOS parameter blocks with a zero sector or cluster size, with more
\* reserved, FAT and root-directory sectors than the volume holds, and with
\* a FAT region of more than 2^32 sectors.
BootEdgeInputs ==
    [bytes_per_sector : {0, 512},
     sectors_per_cluster : {0, 1},
     number_of_fats : {1, 255},
     root_directory_entries : {0, 16},
     sectors16 : {0, 4087},
     sectors32 : {3, 70000},
     sectors_per_fat16 : {0, 1},
     sectors_per_fat32 : {1, 2147483647},
     fs : {<<70, 65, 84, 51, 50, 32, 32, 32>>},
     ext_signature : {0, 41}]

InitBootEdge ==
    /\ imageLen = 0
    /\ content = SectorTable
    /\ image = <<>>
    /\ pc = "boot_call"
    /\ arg \in BootEdgeInputs
    /\ NoRun

SpecBootEdge == InitBootEdge /\ [][NextBoot]_vars

\* The sectors the reserved area and the FAT copies of the boot sector take,
\* on two limbs, and those of the root directory.
EdgeMetadata == WNorm((Wide(ClaimedPerFat).hi) * arg.number_of_fats, (Wide(ClaimedPerFat).lo) * arg.number_of_fats + 1)
EdgeRootSectors == (arg.root_directory_entries * 32) \div arg.bytes_per_sector

\* number_of_fats x sectors_per_fat exceeds 32 bits, or the reserved, FAT and
\* root-directory sectors are more than the sectors of the volume.
EdgeOverflows ==
    \/ EdgeMetadata.hi >= 32768
    \/ WInt(EdgeMetadata) + EdgeRootSectors > ClaimedTotal

\* C28 as stated: on a sector that ends in 0x55 0xAA the decoder returns a
\* decoded boot sector or an error; bytes_per_sector = 0, sectors_per_cluster
\* = 0, metadata regions larger than total_sectors and number_of_fats x
\* sectors_per_fat beyond 32 bits neither abort the decoder nor give a
\* classification computed from a wrapped value.
C28_DecoderTotal ==
    pc = "boot_done" =>
        /\ ret.kind \in {"ok", "err"}
        /\ ret.kind = "ok" =>
               /\ arg.bytes_per_sector # 0
               /\ arg.sectors_per_cluster # 0
               /\ ~EdgeOverflows

\* What the decoder does: it never returns an error on such a sector; a
\* zero sector or cluster size aborts it in the division; where the
\* subtraction or the product leaves 32 bits, the build that checks overflow
\* aborts and the other build classifies the wrapped value.
C28_AsBuilt ==
    pc = "boot_done" =>
        /\ ret.kind # "err"
        /\ (arg.bytes_per_sector = 0 \/ arg.sectors_per_cluster = 0) => ret.kind = "panic"
        /\ (arg.bytes_per_sector # 0 /\ arg.sectors_per_cluster # 0) =>
               IF EdgeOverflows
               THEN \/ checked = "debug" /\ ret.kind = "panic"
                    \/ checked = "release" /\ ret.kind = "ok"
               ELSE ret.kind = "ok" /\ ret.data_sectors = Wide(ClaimedTotal - WInt(EdgeMetadata) - EdgeRootSectors)

-----------------------------------------------------------------------------
(* The depth of the subdirectory descent: properties of SpecVol *)

\* The first cluster of the directory that frame d of print_fat_directory
\* lists (d > 1; frame 1 lists the root directory).
FrameCluster(d) == FrameEntry(d).first_cluster

\* C29 as stated: the recursive descent terminates whenever every cluster
\* chain it follows terminates; a directory entry other than "." and ".."
\* whose first cluster is that of the directory that contains it, or of one
\* of its ancestors, does not cause unbounded recursion: the descent never
\* lists a directory while it is listing that same directory further up.
C29_DescentBounded ==
    \A d \in 2..Len(dstack) : \A a \in 2..(d - 1) : FrameCluster(a) # FrameCluster(d)

\* What the descent does on entries that name a directory listed further up:
\* it follows them like any other, the "." and ".." entries alone being
\* left out by their names.
C29_OnlyDotsLeftOut ==
    [][(pc = "fat_dir" /\ DTop.k <= Len(DTop.entries))
          => (pc' = "fat_chain" <=> (/\ is_directory(DCur)
                                     /\ get_filename(DCur).some
                                     /\ get_filename(DCur).v \notin {<<46>>, <<46, 46>>}))]_vars

-----------------------------------------------------------------------------
(* The place of the extended boot signature: properties of SpecBoot *)

\* The offset of the serial number in the layout of the width the boot
\* sector was classified as: 0x27 for FAT16, 0x43 for FAT32.
SerialOffset == IF ret.extra.type = "Fat16" THEN 39 ELSE 67

\* C30 as stated: in the FAT16 and in the FAT32 layout the extended boot
\* signature that gates the serial number, the volume label and the
\* filesystem-type string is the byte right before the serial number of that
\* layout: offset 0x26 for FAT16 and offset 0x42 for FAT32.
C30_SignatureBeforeSerial ==
    (BootDecoded /\ ret.extra.type \in {"Fat16", "Fat32"}) =>
        /\ ret.extra.extended_signature = Get(BootBytes(arg), SerialOffset - 1)
        /\ ret.extra.serial_number.some =>
               ret.extra.serial_number.v = LE32(BootBytes(arg), SerialOffset)

\* Where the decoder takes the signature from: 0x26 in the FAT16 layout,
\* 0x37 in the FAT32 layout; the serial number is read at 0x27 and at 0x43.
C30_AsDecoded ==
    (BootDecoded /\ ret.extra.type \in {"Fat16", "Fat32"}) =>
        /\ ret.extra.type = "Fat16" => ret.extra.extended_signature = Get(BootBytes(arg), 38)
        /\ ret.extra.type = "Fat32" => ret.extra.extended_signature = Get(BootBytes(arg), 55)
        /\ ret.extra.serial_number.some =>
               ret.extra.serial_number.v = LE32(BootBytes(arg), SerialOffset)

=============================================================================
